---- MODULE Spec2Model ----
(***************************************************************************)
(* Verification model of RasCAL-2: the undoable edit commands and the      *)
(* presenter that pushes them on the Qt undo stack, the background Worker  *)
(* thread, and the custom file editor dialog.                              *)
(*                                                                         *)
(* Values of model attributes and results are atomic here, so a deep copy  *)
(* and a reference to a value are the same thing.                          *)
(***************************************************************************)
EXTENDS Integers, Sequences, FiniteSets, TLC

(***************************************************************************)
(* Bounds of the model.                                                    *)
(***************************************************************************)
MaxResult == 1
MaxStack == 1
MaxWorkers == 1
MaxContrasts == 3
MaxDomains == 2
MaxRuns == 2
MaxDialogs == 3
MaxEvents == 3

\* Python's None as the value of model.results / new_result
NoResult == 0
Results == 1..MaxResult
\* two distinct valid values of an attribute (the commands only copy and
\* compare values), and one the pydantic validators of Controls and Project reject
Vals == {0, 1}
InvalidVal == 2
Inputs == Vals \cup {InvalidVal}

CtrlAttrs == {"procedure", "display"}
ProjAttrs == {"name", "model"}

(***************************************************************************)
(* Python dicts keep insertion order: a dict is a sequence of <<key,       *)
(* value>> pairs with distinct keys.                                       *)
(***************************************************************************)
Keys(d) == [i \in 1..Len(d) |-> d[i][1]]
Values(d) == [i \in 1..Len(d) |-> d[i][2]]
KeySet(d) == {d[i][1] : i \in 1..Len(d)}
Get(d, k) == LET i == CHOOSE j \in 1..Len(d) : d[j][1] = k IN d[i][2]
IsDict(d) == \A i, j \in 1..Len(d) : d[i][1] = d[j][1] => i = j
DictsOver(attrs, vals) ==
    {d \in UNION {[1..n -> attrs \X vals] : n \in 1..Cardinality(attrs)} : IsDict(d)}

VARIABLES
    controls,       \* presenter.model.controls: attribute -> value
    project,        \* presenter.model.project: attribute -> value
    results,        \* presenter.model.results (None or a result)
    save_path,      \* presenter.model.save_path
    command_list,   \* QUndoStack: the commands on the stack
    index,          \* QUndoStack: number of commands currently applied
    clean_index,    \* QUndoStack: index of the clean state, -1 when lost
    last            \* what the last presenter or stack operation did

pvars == <<controls, project, results, save_path, command_list, index, clean_index, last>>

VARIABLES
    workers,        \* the Worker objects created by Worker.call, by number
    queue,          \* main thread event queue: the queued signal deliveries
    waiting         \* the worker whose stop() blocks the main thread in wait(), or 0

wvars == <<workers, queue, waiting>>

VARIABLES
    file,           \* CustomFileEditorDialog.file (NoFile: None)
    text,           \* editor.text()
    unchanged_text, \* CustomFileEditorDialog.unchanged_text
    lexer,          \* editor.lexer()
    starred,        \* the window title shows the modified mark "* "
    disk,           \* the content of every custom file on disk
    elast           \* what the last operation of the dialog did

evars == <<file, text, unchanged_text, lexer, starred, disk, elast>>

VARIABLES
    draft_project,  \* SliderViewWidget.draft_project: the Parameter class lists
    model_project,  \* presenter.model.project: the class lists the draft was copied from
    parameters,     \* SliderViewWidget.parameters: name -> parameter (as <<field, row>>)
    sliders,        \* SliderViewWidget._sliders: name -> LabeledSlider
    no_label,       \* the layout holds the 'There are no fitted parameters' label
    accept_disabled,\* accept_button is disabled
    slider_view,    \* the slider view is shown ("closed", "open")
    vlast           \* what the last operation of the slider view did

svars == <<draft_project, model_project, parameters, sliders, no_label, accept_disabled,
           slider_view, vlast>>

VARIABLES
    tables,           \* project_widget: the tables of its view tabs (NoProject: no project)
    prop_to_change,   \* SlidersViewWidget._prop_to_change: name -> SliderChangeHolder
    values_to_revert, \* SlidersViewWidget._values_to_revert: name -> value
    view_sliders,     \* SlidersViewWidget._sliders: name -> LabeledSlider or EmptySlider
    sliders_visible,  \* the sliders view widget is shown
    tlast             \* what the last operation of the sliders view did

tvars == <<tables, prop_to_change, values_to_revert, view_sliders, sliders_visible, tlast>>

VARIABLES
    zip_results,    \* the results handed to write_result_to_zipped_csvs
    namelist        \* ZipFile.namelist(): the entry names in the order written

zvars == <<zip_results, namelist>>

VARIABLES
    parameter_values, \* model.project: the values of the parameter class lists
    model_results,    \* model.results, as seen by SaveCalculationOutputs
    result_log,       \* model.result_log
    outputs_commands, \* the SaveCalculationOutputs commands on the undo stack
    outputs_index,    \* the number of them currently applied
    clast             \* what the last operation on them did

cvars == <<parameter_values, model_results, result_log, outputs_commands, outputs_index,
           clast>>

VARIABLES
    cls_instance, \* CustomFileEditorDialog._instance: 0 (None) or a dialog of dialogs
    dialogs,      \* every CustomFileEditorDialog constructed, in order
    dlast         \* what the last operation on the class did

dvars == <<cls_instance, dialogs, dlast>>

VARIABLES
    events,             \* runner.events
    signals,            \* the event_received signals emitted and not yet delivered
    running,            \* a run has been started and has not finished or stopped
    run_procedure,      \* str(model.controls.procedure) of the run
    chi_squared_label,  \* view.controls_widget.chi_squared
    queued,             \* history: the events put on runner.events, in order
    handled,            \* history: the events handle_event has dispatched, in order
    hlast               \* what the last operation on the runner did

hvars == <<events, signals, running, run_procedure, chi_squared_label, queued, handled,
           hlast>>

VARIABLES
    labeled_slider, \* a LabeledSlider of sliders_view.py
    llast           \* what the last operation on it did

lvars == <<labeled_slider, llast>>

VARIABLES
    ref_sld, \* the RefSLDWidget: its controls, current_plot_data and blit_plot
    glast    \* what the last operation on it did

gvars == <<ref_sld, glast>>

\* the calculation outputs, the instances of the file editor, the runner, a
\* slider and the plot
nvars == <<cvars, dvars, hvars, lvars, gvars>>

\* everything but the model, the worker, the widgets and the writer
outside_nvars == <<pvars, wvars, evars, svars, tvars, zvars>>
outside_cvars == <<outside_nvars, dvars, hvars, lvars, gvars>>
outside_dvars == <<outside_nvars, cvars, hvars, lvars, gvars>>
outside_hvars == <<outside_nvars, cvars, dvars, lvars, gvars>>
outside_lvars == <<outside_nvars, cvars, dvars, hvars, gvars>>
outside_gvars == <<outside_nvars, cvars, dvars, hvars, lvars>>

\* the sliders view of the main window and the results writer, and the above
yvars == <<tvars, zvars, nvars>>

\* the widgets outside the main window model, the worker and the file editor
xvars == <<svars, yvars>>

(***************************************************************************)
(* rascal2/core/worker.py: Worker(QThread).  func either returns or raises *)
(* an Exception.  The callbacks live in the main thread, so every signal   *)
(* a worker thread emits is queued and delivered by the main event loop.   *)
(***************************************************************************)
WorkerIds == 1..MaxWorkers
Callbacks == [on_success : BOOLEAN, on_failure : BOOLEAN, on_complete : BOOLEAN]
NoCallbacks == [on_success |-> FALSE, on_failure |-> FALSE, on_complete |-> FALSE]

\* Worker.__init__; given tells which callbacks call() was given (not None)
NewWorker ==
    [pc |-> "unborn", stopped |-> FALSE, given |-> NoCallbacks, connected |-> NoCallbacks,
     ran |-> FALSE, outcome |-> "none", job_succeeded |-> 0, job_failed |-> 0,
     escaped |-> FALSE, finished |-> 0, called |-> NoCallbacks,
     on_success |-> 0, on_failure |-> 0, on_complete |-> 0, late |-> FALSE]

WorkersIdle ==
    /\ workers = [i \in WorkerIds |-> NewWorker]
    /\ queue = <<>>
    /\ waiting = 0

\* call() connecting every signal, whatever callbacks it was given
ConnectAll(given) == [on_success |-> TRUE, on_failure |-> TRUE, on_complete |-> TRUE]

\* Worker.call: connect the callbacks that are not None, then start()
ConnectGiven(given) == given

Worker_call(given) ==
    [NewWorker EXCEPT !.given = given, !.connected = ConnectGiven(given), !.pc = "started"]

\* Worker.run, entry: return at once when stopped
Worker_run_enter(w) ==
    IF w.stopped THEN [w EXCEPT !.pc = "returned"] ELSE [w EXCEPT !.pc = "running"]

\* run() without the except clause: the exception of func leaves run()
Worker_run_body_no_except(w, outcome) ==
    IF outcome = "returns"
    THEN [w EXCEPT !.pc = "returned", !.ran = TRUE, !.outcome = outcome,
                   !.job_succeeded = @ + 1]
    ELSE [w EXCEPT !.pc = "returned", !.ran = TRUE, !.outcome = outcome,
                   !.escaped = TRUE]

\* Worker.run, try/except: func returned or raised an Exception
Worker_run_body(w, outcome) ==
    IF outcome = "returns"
    THEN [w EXCEPT !.pc = "returned", !.ran = TRUE, !.outcome = outcome,
                   !.job_succeeded = @ + 1]
    ELSE [w EXCEPT !.pc = "returned", !.ran = TRUE, !.outcome = outcome,
                   !.job_failed = @ + 1]

\* the signals of worker i queued by a step from w to v, in emission order
Emitted(i, w, v) ==
    (IF v.job_succeeded > w.job_succeeded /\ v.connected.on_success
     THEN <<<<i, "job_succeeded">>>> ELSE <<>>)
    \o (IF v.job_failed > w.job_failed /\ v.connected.on_failure
        THEN <<<<i, "job_failed">>>> ELSE <<>>)
    \o (IF v.finished > w.finished /\ v.connected.on_complete
        THEN <<<<i, "finished">>>> ELSE <<>>)

\* QThread: run() has returned, the thread ends and emits finished
Thread_finish(w) == [w EXCEPT !.pc = "finished", !.finished = @ + 1]

\* the slot connected to a delivered signal is called
Deliver(w, signal) ==
    IF signal = "job_succeeded" THEN [w EXCEPT !.on_success = @ + 1]
    ELSE IF signal = "job_failed" THEN [w EXCEPT !.on_failure = @ + 1]
    ELSE [w EXCEPT !.on_complete = @ + 1,
                   !.late = w.ran /\ w.job_succeeded + w.job_failed = 0]

Call ==
    /\ waiting = 0
    /\ \E i \in WorkerIds, given \in Callbacks :
        /\ workers[i].pc = "unborn"
        /\ \A j \in WorkerIds : j < i => workers[j].pc # "unborn"
        /\ workers' = [workers EXCEPT ![i] = Worker_call(given)]
    /\ UNCHANGED <<queue, waiting, pvars, evars, xvars>>

RunEnter ==
    \E i \in WorkerIds :
        /\ workers[i].pc = "started"
        /\ workers' = [workers EXCEPT ![i] = Worker_run_enter(@)]
        /\ UNCHANGED <<queue, waiting, pvars, evars, xvars>>

RunBody ==
    \E i \in WorkerIds, outcome \in {"returns", "raises"} :
        /\ workers[i].pc = "running"
        /\ workers' = [workers EXCEPT ![i] = Worker_run_body(@, outcome)]
        /\ queue' = queue \o Emitted(i, workers[i], workers'[i])
        /\ UNCHANGED <<waiting, pvars, evars, xvars>>

ThreadFinish ==
    \E i \in WorkerIds :
        /\ workers[i].pc = "returned"
        /\ workers' = [workers EXCEPT ![i] = Thread_finish(@)]
        /\ queue' = queue \o Emitted(i, workers[i], workers'[i])
        /\ waiting' = (IF waiting = i THEN 0 ELSE waiting)
        /\ UNCHANGED <<pvars, evars, xvars>>

\* Worker.stop, called in the main thread: set stopped, quit(), wait()
Stop ==
    /\ waiting = 0
    /\ \E i \in WorkerIds :
        /\ workers[i].pc \notin {"unborn", "finished"}
        /\ ~workers[i].stopped
        /\ workers' = [workers EXCEPT ![i].stopped = TRUE]
        /\ waiting' = i
    /\ UNCHANGED <<queue, pvars, evars, xvars>>

\* the main event loop delivers the oldest queued signal
EventLoop ==
    /\ waiting = 0
    /\ queue # <<>>
    /\ workers' = [workers EXCEPT ![queue[1][1]] = Deliver(@, queue[1][2])]
    /\ queue' = Tail(queue)
    /\ UNCHANGED <<waiting, pvars, evars, xvars>>

(***************************************************************************)
(* rascal2/dialogs/custom_file_editor.py: CustomFileEditorDialog           *)
(***************************************************************************)
NoFile == "None"
ExampleFile == "examples/model.py"
Files == {ExampleFile, "a.py", "b.m"}
\* Path.is_relative_to(EXAMPLES_PATH)
FileInExamples(f) == f = ExampleFile

\* the language a file is opened with, and the lexer open_file sets for it
Languages == {"python", "matlab", "cpp"}
LexerOf(language) ==
    IF language = "python" THEN "QsciLexerPython"
    ELSE IF language = "matlab" THEN "QsciLexerMatlab"
    ELSE "None"

\* what the user can put in the editor; the last one was pasted with a
\* Windows line end
Typed == {"new\n", "orig\n", "win\r\n"}
\* Path.read_text: universal newlines turn "\r\n" into "\n"
read_text(bytes) == IF bytes = "win\r\n" THEN "win\n" ELSE bytes
\* Path.write_text on POSIX writes the text as it is
write_text(t) == t
\* what write_text does: it writes, it fails to open the file (nothing
\* written), or it fails after truncating the file
WriteOutcomes == {"ok", "OSError on open", "OSError on write"}

\* QMessageBox.StandardButton: the answers to the save question of open_file
SaveButton == "StandardButton.Save"
DiscardButton == "StandardButton.Discard"

is_modified(unchanged, t) == unchanged # t

EDid(op) ==
    [op |-> op, arg |-> "", ret |-> "None", writes |-> <<>>, warnings |-> 0,
     criticals |-> 0, logged |-> 0, questions |-> 0, reply |-> "None"]

EditorState ==
    [file |-> file, text |-> text, unchanged_text |-> unchanged_text, lexer |-> lexer,
     starred |-> starred, disk |-> disk]

\* CustomFileEditorDialog.__init__
EditorClosed ==
    /\ file = NoFile
    /\ text = ""
    /\ unchanged_text = ""
    /\ lexer = "None"
    /\ starred = FALSE
    /\ disk = [f \in Files |-> "orig\n"]
    /\ elast = EDid("init")

\* save_file taking the text as saved before it is written
save_file_marks_first(e, out, d) ==
    IF ~is_modified(e.unchanged_text, e.text)
    THEN [e |-> e, did |-> d]
    ELSE IF FileInExamples(e.file)
    THEN [e |-> e, did |-> [d EXCEPT !.warnings = @ + 1]]
    ELSE IF out = "ok"
    THEN [e |-> [e EXCEPT !.disk[e.file] = write_text(e.text),
                          !.unchanged_text = e.text, !.starred = FALSE],
          did |-> [d EXCEPT !.writes = Append(@, <<e.file, e.text>>)]]
    ELSE [e |-> [e EXCEPT !.disk[e.file] = IF out = "OSError on write" THEN "" ELSE @,
                          !.unchanged_text = e.text, !.starred = FALSE],
          did |-> [d EXCEPT !.logged = @ + 1, !.criticals = @ + 1]]

\* save_file without the check of the examples directory
save_file_into_examples(e, out, d) ==
    IF ~is_modified(e.unchanged_text, e.text)
    THEN [e |-> e, did |-> d]
    ELSE IF out = "ok"
    THEN [e |-> [e EXCEPT !.disk[e.file] = write_text(e.text),
                          !.unchanged_text = e.text, !.starred = FALSE],
          did |-> [d EXCEPT !.writes = Append(@, <<e.file, e.text>>)]]
    ELSE [e |-> [e EXCEPT !.disk[e.file] = IF out = "OSError on write" THEN "" ELSE @],
          did |-> [d EXCEPT !.logged = @ + 1, !.criticals = @ + 1]]

\* CustomFileEditorDialog.save_file; out is what file.write_text does if called
save_file(e, out, d) ==
    IF ~is_modified(e.unchanged_text, e.text)
    THEN [e |-> e, did |-> d]
    ELSE IF FileInExamples(e.file)
    THEN [e |-> e, did |-> [d EXCEPT !.warnings = @ + 1]]
    ELSE IF out = "ok"
    THEN [e |-> [e EXCEPT !.disk[e.file] = write_text(e.text),
                          !.unchanged_text = e.text, !.starred = FALSE],
          did |-> [d EXCEPT !.writes = Append(@, <<e.file, e.text>>)]]
    ELSE [e |-> [e EXCEPT !.disk[e.file] = IF out = "OSError on write" THEN "" ELSE @],
          did |-> [d EXCEPT !.logged = @ + 1, !.criticals = @ + 1]]

\* open_file without the early return for the file that is already open
open_file_always_reloads(e, f, language, reply, out, d) ==
    LET modified == is_modified(e.unchanged_text, e.text)
        asked == IF modified
                 THEN [d EXCEPT !.questions = @ + 1, !.reply = reply] ELSE d
        s == IF modified /\ reply = SaveButton
             THEN save_file(e, out, asked)
             ELSE [e |-> e, did |-> asked]
        content == read_text(s.e.disk[f])
    IN [e |-> [s.e EXCEPT !.file = f, !.lexer = LexerOf(language),
                          !.unchanged_text = content, !.text = content,
                          !.starred = FALSE],
        did |-> s.did]

\* open_file switching to the new file without saving, whatever the answer
open_file_never_saves(e, f, language, reply, out, d) ==
    IF f = e.file
    THEN [e |-> e, did |-> d]
    ELSE LET modified == is_modified(e.unchanged_text, e.text)
             asked == IF modified
                      THEN [d EXCEPT !.questions = @ + 1, !.reply = reply] ELSE d
             content == read_text(e.disk[f])
         IN [e |-> [e EXCEPT !.file = f, !.lexer = LexerOf(language),
                             !.unchanged_text = content, !.text = content,
                             !.starred = FALSE],
             did |-> asked]

\* CustomFileEditorDialog.open_file; reply answers the save question if asked
open_file(e, f, language, reply, out, d) ==
    IF f = e.file
    THEN [e |-> e, did |-> d]
    ELSE LET modified == is_modified(e.unchanged_text, e.text)
             asked == IF modified
                      THEN [d EXCEPT !.questions = @ + 1, !.reply = reply] ELSE d
             s == IF modified /\ reply = SaveButton
                  THEN save_file(e, out, asked)
                  ELSE [e |-> e, did |-> asked]
             content == read_text(s.e.disk[f])
         IN [e |-> [s.e EXCEPT !.file = f, !.lexer = LexerOf(language),
                               !.unchanged_text = content, !.text = content,
                               !.starred = FALSE],
             did |-> s.did]

SetEditor(e) ==
    /\ file' = e.file
    /\ text' = e.text
    /\ unchanged_text' = e.unchanged_text
    /\ lexer' = e.lexer
    /\ starred' = e.starred
    /\ disk' = e.disk

OpenFile ==
    \E f \in Files, language \in Languages, reply \in {SaveButton, DiscardButton},
       out \in WriteOutcomes :
        LET r == open_file(EditorState, f, language, reply, out,
                           [EDid("open_file") EXCEPT !.arg = f])
        IN /\ SetEditor(r.e)
           /\ elast' = r.did
           /\ UNCHANGED <<pvars, wvars, xvars>>

\* the user edits the text: textChanged calls show_modified
TypeText ==
    /\ file # NoFile
    /\ \E t \in Typed :
        /\ text' = t
        /\ starred' = is_modified(unchanged_text, t)
        /\ elast' = EDid("type")
        /\ UNCHANGED <<file, unchanged_text, lexer, disk, pvars, wvars, xvars>>

SaveFile ==
    /\ file # NoFile
    /\ \E out \in WriteOutcomes :
        LET r == save_file(EditorState, out, [EDid("save_file") EXCEPT !.arg = out])
        IN /\ SetEditor(r.e)
           /\ elast' = r.did
           /\ UNCHANGED <<pvars, wvars, xvars>>

(***************************************************************************)
(* rascal2/widgets/project/slider_view.py: SliderViewWidget, LabeledSlider *)
(* A draft project is the list of its class lists in the order of          *)
(* draft_project.values().  Names are unique inside one class list.        *)
(* Parameter values, minima and maxima are counted in units of 0.0001.     *)
(***************************************************************************)
ParamNames == {"A", "B"}

\* min, max and value of a parameter; the second has round(...) on a tie
Shapes ==
    {[min |-> 10000, max |-> 750000, value |-> 210000],
     [min |-> 0, max |-> 80000, value |-> 10000],
     [min |-> -1000, max |-> 5000, value |-> 3000],
     [min |-> 30000, max |-> 30000, value |-> 30000]}

Parameter(name, fit, shape) ==
    [name |-> name, fit |-> fit, min |-> shape.min, max |-> shape.max,
     value |-> shape.value]

\* the sequences of parameters with different names, as a ClassList holds them
ClassListsOver(names, shapes) ==
    {<<>>}
    \cup {<<Parameter(n, f, sh)>> : n \in names, f \in BOOLEAN, sh \in shapes}
    \cup {<<Parameter(n[1], f[1], sh), Parameter(n[2], f[2], sh)>> :
            n \in {x \in names \X names : x[1] # x[2]},
            f \in BOOLEAN \X BOOLEAN, sh \in shapes}

\* a class list that does not hold Parameters
LayersList ==
    [field |-> "layers", handle |-> "Layer",
     items |-> <<Parameter("A", TRUE, CHOOSE sh \in Shapes : sh.min = sh.max)>>]

\* the draft projects the slider view is created with
Drafts ==
    {<<[field |-> "parameters", handle |-> "Parameter", items |-> ps],
       LayersList,
       [field |-> "bulk_in", handle |-> "Parameter", items |-> bs]>> :
        ps \in ClassListsOver(ParamNames, {sh \in Shapes : sh.min >= 0 /\ sh.min < sh.max}),
        bs \in {b \in ClassListsOver({"A"}, {sh \in Shapes : sh.min < 0 \/ sh.min = sh.max}) :
                  Len(b) <= 1}}

\* the parameter object a reference <<class list, row>> points to
ParamAt(draft, ref) == draft[ref[1]].items[ref[2]]

\* d[k] = v on a Python dict: a new key goes last, an old key keeps its place
DictSet(d, k, v) ==
    IF \E i \in 1..Len(d) : d[i][1] = k
    THEN [i \in 1..Len(d) |-> IF d[i][1] = k THEN <<k, v>> ELSE d[i]]
    ELSE Append(d, <<k, v>>)

\* the loop of _init_parameters_for_sliders from class list ci, row on
RECURSIVE ParametersFrom(_, _, _, _)
ParametersFrom(draft, ci, row, acc) ==
    IF ci > Len(draft) THEN acc
    ELSE IF draft[ci].handle # "Parameter" \/ row > Len(draft[ci].items)
    THEN ParametersFrom(draft, ci + 1, 1, acc)
    ELSE ParametersFrom(draft, ci, row + 1,
             IF draft[ci].items[row].fit
             THEN DictSet(acc, draft[ci].items[row].name, <<ci, row>>)
             ELSE acc)

\* SliderViewWidget._init_parameters_for_sliders
init_parameters_for_sliders(draft) == ParametersFrom(draft, 1, 1, <<>>)

SliderMinimum == 0
SliderMaximum == 100

Abs(x) == IF x < 0 THEN -x ELSE x

\* Python round(n / d, 0) for d > 0: to the nearest integer, a tie to the even one
Round(n, d) ==
    LET q == n \div d
        rem == n - q * d
    IN IF 2 * rem < d THEN q
       ELSE IF 2 * rem > d THEN q + 1
       ELSE IF q % 2 = 0 THEN q ELSE q + 1

\* _param_value_to_slider_value cutting the fraction off instead of rounding
param_value_to_slider_value_truncating(param, param_value) ==
    LET param_value_range == param.max - param.min
    IN IF Abs(param_value_range) * 100 < 1
       THEN SliderMaximum
       ELSE (SliderMaximum * (param_value - param.min)) \div param_value_range

\* LabeledSlider._param_value_to_slider_value
param_value_to_slider_value(param, param_value) ==
    LET param_value_range == param.max - param.min
    IN IF Abs(param_value_range) * 100 < 1
       THEN SliderMaximum
       ELSE Round(SliderMaximum * (param_value - param.min), param_value_range)

\* LabeledSlider._slider_value_to_param_value
slider_value_to_param_value(param, value) ==
    LET param_value == param.min + (value * (param.max - param.min)) \div SliderMaximum
    IN IF param_value > param.max THEN param.max ELSE param_value

\* QSlider.setValue keeps the value inside the range of the slider
setValue(slider, value) ==
    [slider EXCEPT !.value = IF value < slider.minimum THEN slider.minimum
                             ELSE IF value > slider.maximum THEN slider.maximum
                             ELSE value]

\* LabeledSlider.__init__ for the parameter at ref
LabeledSlider(draft, ref) ==
    setValue([param |-> ref, minimum |-> SliderMinimum, maximum |-> SliderMaximum,
              value |-> SliderMinimum],
             param_value_to_slider_value(ParamAt(draft, ref), ParamAt(draft, ref).value))

\* SliderViewWidget._add_sliders_widgets: the new _sliders
add_sliders_widgets(draft, params) ==
    [i \in 1..Len(params) |-> <<params[i][1], LabeledSlider(draft, params[i][2])>>]

VDid(op) ==
    [op |-> op, updates |-> 0, edit_project |-> <<>>, toggles |-> 0, plots |-> 0,
     order |-> <<>>]

\* create_draft_project: the draft is a copy of the class lists of the project,
\* sharing no parameter object with it
create_draft_project(current) == current

\* no slider view has been created
SliderViewClosed ==
    /\ draft_project = <<>>
    /\ model_project = <<>>
    /\ parameters = <<>>
    /\ sliders = <<>>
    /\ no_label = FALSE
    /\ accept_disabled = FALSE
    /\ slider_view = "closed"
    /\ vlast = VDid("init")

\* MainWindowView shows the sliders: SliderViewWidget(draft_project, parent),
\* whose __init__ ends with initialize()
CreateSliderView ==
    /\ slider_view = "closed"
    /\ \E current \in Drafts :
        LET draft == create_draft_project(current)
            params == init_parameters_for_sliders(draft)
        IN /\ draft_project' = draft
           /\ model_project' = current
           /\ parameters' = params
           /\ sliders' = add_sliders_widgets(draft, params)
           /\ no_label' = (params = <<>>)
           /\ accept_disabled' = (params = <<>>)
    /\ slider_view' = "open"
    /\ vlast' = VDid("initialize")
    /\ UNCHANGED <<pvars, wvars, evars, yvars>>

\* the slider positions the user moves a slider to
Positions == {0, 79, 100}

\* LabeledSlider._update_value after the slider i was moved to value
update_value(draft, i, value) ==
    LET ref == sliders[i][2].param
    IN [draft EXCEPT ![ref[1]].items[ref[2]].value =
            slider_value_to_param_value(ParamAt(draft, ref), value)]

MoveSlider ==
    /\ slider_view = "open"
    /\ \E i \in 1..Len(sliders), value \in Positions :
        /\ value # sliders[i][2].value
        /\ sliders' = [sliders EXCEPT ![i][2] = setValue(@, value)]
        /\ draft_project' = update_value(draft_project, i, value)
        /\ vlast' = [VDid("move") EXCEPT !.updates = 1, !.order = <<i, value>>]
    /\ UNCHANGED <<model_project, parameters, no_label, accept_disabled, slider_view,
                   pvars, wvars, evars, yvars>>

\* SliderViewWidget._apply_changes_from_sliders
apply_changes_from_sliders(draft, d) ==
    [d EXCEPT !.edit_project = Append(@, draft), !.toggles = @ + 1,
              !.order = <<"edit_project", "toggle_sliders">>]

\* Cancel applying the draft the way Accept does before it closes the view
cancel_changes_applying_draft(draft, d) ==
    [d EXCEPT !.edit_project = Append(@, draft), !.plots = @ + 1, !.toggles = @ + 1,
              !.order = <<"update_plots", "toggle_sliders">>]

\* SliderViewWidget._cancel_changes_from_sliders
cancel_changes_from_sliders(draft, d) ==
    [d EXCEPT !.plots = @ + 1, !.toggles = @ + 1,
              !.order = <<"update_plots", "toggle_sliders">>]

\* the project of the model after the calls d of presenter.edit_project
\* (a draft made by the sliders is valid; the command sets the project to it)
ProjectAfter(d) ==
    IF d.edit_project = <<>> THEN model_project ELSE d.edit_project[Len(d.edit_project)]

\* the Accept button, enabled, is clicked; toggle_sliders closes the view
AcceptSliders ==
    /\ slider_view = "open"
    /\ ~accept_disabled
    /\ LET d == apply_changes_from_sliders(draft_project, VDid("accept"))
       IN /\ vlast' = d
          /\ model_project' = ProjectAfter(d)
          /\ slider_view' = IF d.toggles = 1 THEN "closed" ELSE slider_view
    /\ UNCHANGED <<draft_project, parameters, sliders, no_label, accept_disabled,
                   pvars, wvars, evars, yvars>>

\* the Cancel button is clicked
CancelSliders ==
    /\ slider_view = "open"
    /\ LET d == cancel_changes_from_sliders(draft_project, VDid("cancel"))
       IN /\ vlast' = d
          /\ model_project' = ProjectAfter(d)
          /\ slider_view' = IF d.toggles = 1 THEN "closed" ELSE slider_view
    /\ UNCHANGED <<draft_project, parameters, sliders, no_label, accept_disabled,
                   pvars, wvars, evars, yvars>>

(***************************************************************************)
(* rascal2/widgets/sliders_view.py: SlidersViewWidget, SliderChangeHolder, *)
(* LabeledSlider, EmptySlider.  The project widget is the sequence of its  *)
(* tables in the order of view_tabs.values() and tables.values(); a        *)
(* parameter object is known by its table and its row.  Parameter values   *)
(* are integers here.                                                      *)
(***************************************************************************)
NoProject == <<>>

\* a table view whose model is a ParametersModel over the class list items
ParametersTable(items) == [model |-> "ParametersModel", classlist |-> items]

\* a table view whose model is not a ParametersModel
OtherTable ==
    [model |-> "ClassListTableModel",
     classlist |-> <<Parameter("B", TRUE, [min |-> 0, max |-> 1, value |-> 0])>>]

\* the tables of the projects: two parameters in the first table, one in the last,
\* which may have the name of a parameter of the first and may have max = min
ProjectTables ==
    {<<ParametersTable(<<Parameter("A", x[1], [min |-> 0, max |-> 1, value |-> x[4]]),
                         Parameter("B", x[2], [min |-> 0, max |-> 1, value |-> x[5]])>>),
       OtherTable,
       ParametersTable(<<Parameter(x[6], x[3], [min |-> x[7], max |-> 1, value |-> 1])>>)>> :
        x \in BOOLEAN \X BOOLEAN \X BOOLEAN \X (0..1) \X (0..1) \X {"A", "C"} \X (0..1)}

\* SliderChangeHolder.__init__
SliderChangeHolder(row_number, model) == [row_number |-> row_number, model |-> model]

\* SliderChangeHolder.param
PropParam(tabs, prop) == tabs[prop.model].classlist[prop.row_number]

\* the loop of _init_properties_for_sliders from table ti, row on; old is the
\* _prop_to_change of the previous call
RECURSIVE PropertiesFrom(_, _, _, _, _)
PropertiesFrom(tabs, old, ti, row, acc) ==
    IF ti > Len(tabs) THEN acc
    ELSE IF tabs[ti].model # "ParametersModel" \/ row > Len(tabs[ti].classlist)
    THEN PropertiesFrom(tabs, old, ti + 1, 1, acc)
    ELSE LET model_param == tabs[ti].classlist[row]
         IN PropertiesFrom(tabs, old, ti, row + 1,
                IF model_param.fit
                THEN [trial_properties |->
                          DictSet(acc.trial_properties, model_param.name,
                                  SliderChangeHolder(row, ti)),
                      n_updated_properties |->
                          IF model_param.name \in KeySet(old)
                          THEN acc.n_updated_properties + 1
                          ELSE acc.n_updated_properties]
                ELSE acc)

\* the value _init_properties_for_sliders returns
update_properties(trial, old, n) == n = Len(trial) /\ Len(old) = n /\ n # 0

\* SlidersViewWidget._init_properties_for_sliders
init_properties_for_sliders(tabs, old) ==
    LET r == PropertiesFrom(tabs, old, 1, 1,
                 [trial_properties |-> <<>>, n_updated_properties |-> 0])
        trial == r.trial_properties
    IN [prop_to_change |-> trial,
        values_to_revert |->
            [i \in 1..Len(trial) |-> <<trial[i][1], PropParam(tabs, trial[i][2]).value>>],
        update_properties |-> update_properties(trial, old, r.n_updated_properties)]

slider_max_idx == 100

EmptySliderName == "Empty Slider"

\* EmptySlider.__init__: a LabeledSlider of no property
EmptySlider ==
    [kind |-> "EmptySlider", slider_name |-> EmptySliderName,
     prop |-> SliderChangeHolder(0, 0), value_min |-> 0, value_max |-> 100, value |-> 50]

\* LabeledSlider._value_to_slider_pos divides by _value_range: ZeroDivisionError
value_to_slider_pos_raises(value_min, value_max) == value_max - value_min = 0

\* LabeledSlider.__init__ for the property prop, when it does not raise
SlidersLabeledSlider(tabs, prop) ==
    LET param == PropParam(tabs, prop)
    IN [kind |-> "LabeledSlider", slider_name |-> param.name, prop |-> prop,
        value_min |-> param.min, value_max |-> param.max, value |-> param.value]

\* what _add_sliders_widgets and _update_sliders_widgets leave: the sliders, the
\* number of LabeledSliders constructed and whether an exception ended the call
RECURSIVE AddSlidersFrom(_, _, _, _)
AddSlidersFrom(tabs, props, i, acc) ==
    IF i > Len(props)
    THEN [sliders |-> acc, created |-> Len(props), raised |-> FALSE]
    ELSE LET param == PropParam(tabs, props[i][2])
         IN IF value_to_slider_pos_raises(param.min, param.max)
            THEN [sliders |-> acc, created |-> i - 1, raised |-> TRUE]
            ELSE AddSlidersFrom(tabs, props, i + 1,
                     DictSet(acc, props[i][1], SlidersLabeledSlider(tabs, props[i][2])))

\* SlidersViewWidget._add_sliders_widgets
sliders_add_sliders_widgets(tabs, props) ==
    IF Len(props) = 0
    THEN [sliders |-> <<<<EmptySlider.slider_name, EmptySlider>>>>, created |-> 0,
          raised |-> FALSE]
    ELSE AddSlidersFrom(tabs, props, 1, <<>>)

\* LabeledSlider.update_slider_parameters (EmptySlider: returns at once)
update_slider_parameters(tabs, slider, prop) ==
    LET param == PropParam(tabs, prop)
        updated == \/ slider.value_min # param.min
                   \/ slider.value_max # param.max
                   \/ slider.value # param.value
    IN IF slider.kind = "EmptySlider" THEN [slider |-> slider, raised |-> FALSE]
       ELSE IF param.name # slider.slider_name
       THEN [slider |-> [slider EXCEPT !.prop = prop], raised |-> TRUE]
       ELSE [slider |-> [slider EXCEPT !.prop = prop, !.value_min = param.min,
                                       !.value_max = param.max, !.value = param.value],
             raised |-> updated /\ value_to_slider_pos_raises(param.min, param.max)]

RECURSIVE UpdateSlidersFrom(_, _, _, _)
UpdateSlidersFrom(tabs, props, i, acc) ==
    IF i > Len(props) THEN [sliders |-> acc, created |-> 0, raised |-> FALSE]
    ELSE IF props[i][1] \notin KeySet(acc)
    THEN [sliders |-> acc, created |-> 0, raised |-> TRUE]
    ELSE LET u == update_slider_parameters(tabs, Get(acc, props[i][1]), props[i][2])
         IN IF u.raised
            THEN [sliders |-> DictSet(acc, props[i][1], u.slider), created |-> 0,
                  raised |-> TRUE]
            ELSE UpdateSlidersFrom(tabs, props, i + 1,
                                   DictSet(acc, props[i][1], u.slider))

\* SlidersViewWidget._update_sliders_widgets
update_sliders_widgets(tabs, props, old_sliders) ==
    UpdateSlidersFrom(tabs, props, 1, old_sliders)

TDid(op) == [op |-> op, path |-> "none", created |-> 0, raised |-> FALSE, calls |-> <<>>]

\* SlidersViewWidget.init() with a project: the new fields and what it did
sliders_init(tabs, old, old_sliders) ==
    LET p == init_properties_for_sliders(tabs, old)
        w == IF p.update_properties
             THEN update_sliders_widgets(tabs, p.prop_to_change, old_sliders)
             ELSE sliders_add_sliders_widgets(tabs, p.prop_to_change)
    IN [prop_to_change |-> p.prop_to_change,
        values_to_revert |-> p.values_to_revert,
        sliders |-> w.sliders,
        did |-> [TDid("init") EXCEPT
                    !.path = IF p.update_properties THEN "update" ELSE "add",
                    !.created = w.created, !.raised = w.raised]]

\* the widget is constructed by the main window before any project exists: its
\* __init__ calls init(), which returns after creating the buttons
SlidersViewConstructed ==
    /\ tables = NoProject
    /\ prop_to_change = <<>>
    /\ values_to_revert = <<>>
    /\ view_sliders = <<>>
    /\ sliders_visible = FALSE
    /\ tlast = TDid("construct")

\* a project is created or loaded: the project widget shows its tables
LoadProject ==
    /\ tables = NoProject
    /\ tables' \in ProjectTables
    /\ tlast' = TDid("load")
    /\ UNCHANGED <<prop_to_change, values_to_revert, view_sliders, sliders_visible,
                   pvars, wvars, evars, svars, zvars, nvars>>

\* the user ticks or clears the fit box of a parameter in a project table
SetFit ==
    /\ tables # NoProject
    /\ \E ti \in 1..Len(tables) :
        /\ tables[ti].model = "ParametersModel"
        /\ \E row \in 1..Len(tables[ti].classlist) :
            tables' = [tables EXCEPT ![ti].classlist[row].fit = ~@]
    /\ tlast' = TDid("fit")
    /\ UNCHANGED <<prop_to_change, values_to_revert, view_sliders, sliders_visible,
                   pvars, wvars, evars, svars, zvars, nvars>>

\* SlidersViewWidget.init()
InitSlidersView ==
    /\ IF tables = NoProject
       THEN /\ tlast' = TDid("init")
            /\ UNCHANGED <<prop_to_change, values_to_revert, view_sliders>>
       ELSE LET r == sliders_init(tables, prop_to_change, view_sliders)
            IN /\ prop_to_change' = r.prop_to_change
               /\ values_to_revert' = r.values_to_revert
               /\ view_sliders' = r.sliders
               /\ tlast' = r.did
    /\ UNCHANGED <<tables, sliders_visible, pvars, wvars, evars, svars, zvars, nvars>>

\* SlidersViewWidget.show(): nothing when visible, else init() and, unless it
\* raised, QWidget.show()
ShowSlidersView ==
    /\ ~sliders_visible
    /\ tables # NoProject
    /\ LET r == sliders_init(tables, prop_to_change, view_sliders)
       IN /\ prop_to_change' = r.prop_to_change
          /\ values_to_revert' = r.values_to_revert
          /\ view_sliders' = r.sliders
          /\ tlast' = [r.did EXCEPT !.op = "show"]
          /\ sliders_visible' = ~r.did.raised
    /\ UNCHANGED <<tables, pvars, wvars, evars, svars, zvars, nvars>>

\* ParametersModel.setData(index(row, 4), val, EditRole, recalculate_project) as
\* SliderChangeHolder.update_value_representation calls it: the value of the row
update_value_representation(tabs, prop, val) ==
    [tabs EXCEPT ![prop.model].classlist[prop.row_number].value = val]

\* LabeledSlider._slider_pos_to_value
slider_pos_to_value(slider, idx) ==
    LET value == slider.value_min
                   + (idx * (slider.value_max - slider.value_min)) \div slider_max_idx
    IN IF value > slider.value_max THEN slider.value_max ELSE value

\* the ends of a slider
SliderEnds == {0, slider_max_idx}

\* LabeledSlider._update_value(idx): the user moved the slider to idx
MoveLabeledSlider ==
    /\ sliders_visible
    /\ \E i \in 1..Len(view_sliders), idx \in SliderEnds :
        LET slider == view_sliders[i][2]
            val == slider_pos_to_value(slider, idx)
        IN /\ slider.kind = "LabeledSlider"
           /\ val # slider.value
           /\ view_sliders' = [view_sliders EXCEPT ![i][2].value = val]
           /\ tables' = update_value_representation(tables, slider.prop, val)
           /\ tlast' = [TDid("move") EXCEPT
                           !.calls = <<[name |-> slider.slider_name, val |-> val,
                                        recalculate_project |-> TRUE]>>]
    /\ UNCHANGED <<prop_to_change, values_to_revert, sliders_visible,
                   pvars, wvars, evars, svars, zvars, nvars>>

\* SlidersViewWidget._identify_changed_properties
identify_changed_properties(tabs, props, revert) ==
    SelectSeq(revert, LAMBDA kv : kv[2] # PropParam(tabs, Get(props, kv[1])).value)

\* the tables after the updates of the first n recorded values
RECURSIVE RevertedTables(_, _, _, _)
RevertedTables(tabs, props, revert, n) ==
    IF n = 0 THEN tabs
    ELSE update_value_representation(RevertedTables(tabs, props, revert, n - 1),
                                     Get(props, revert[n][1]), revert[n][2])

\* SlidersViewWidget._cancel_changes_from_sliders: the tables it leaves and the
\* calls of update_value_representation it makes
sliders_cancel_changes_from_sliders(tabs, props, revert) ==
    LET changed_properties == identify_changed_properties(tabs, props, revert)
        last_changed_prop_num == Len(changed_properties) - 1
    IN IF Len(changed_properties) > 0
       THEN [tables |-> RevertedTables(tabs, props, revert, Len(revert)),
             calls |-> [i \in 1..Len(revert) |->
                          [name |-> revert[i][1], val |-> revert[i][2],
                           recalculate_project |-> (i - 1 = last_changed_prop_num)]]]
       ELSE [tables |-> tabs, calls |-> <<>>]

\* the Cancel button of the sliders view; show_or_hide_sliders(False) hides it
CancelSlidersView ==
    /\ sliders_visible
    /\ LET r == sliders_cancel_changes_from_sliders(tables, prop_to_change,
                                                    values_to_revert)
       IN /\ tables' = r.tables
          /\ tlast' = [TDid("cancel") EXCEPT !.calls = r.calls]
    /\ sliders_visible' = FALSE
    /\ UNCHANGED <<prop_to_change, values_to_revert, view_sliders,
                   pvars, wvars, evars, svars, zvars, nvars>>

\* the Accept button of the sliders view: _apply_changes_from_sliders only hides
AcceptSlidersView ==
    /\ sliders_visible
    /\ sliders_visible' = FALSE
    /\ tlast' = TDid("accept")
    /\ UNCHANGED <<tables, prop_to_change, values_to_revert, view_sliders,
                   pvars, wvars, evars, svars, zvars, nvars>>

(***************************************************************************)
(* rascal2/core/writer.py                                                  *)
(* The arrays themselves are not modelled: a list field is the number of   *)
(* its arrays (one per contrast), a double-list field the number of arrays *)
(* (domains) of every contrast.                                            *)
(***************************************************************************)
\* ratapi.outputs.results_fields, the keys the writer reads
results_fields ==
    [list_fields |->
         <<"reflectivity", "simulation", "shiftedData", "backgrounds", "resolutions">>,
     double_list_fields |-> <<"sldProfiles", "layers", "resampledLayers">>]

\* ratapi.outputs.bayes_results_fields, the keys and inner classes the writer reads
bayes_results_fields ==
    [list_fields |->
         [predictionIntervals |-> <<"reflectivity">>, confidenceIntervals |-> <<>>,
          dreamOutput |-> <<>>, nestedSamplerOutput |-> <<>>],
     double_list_fields |->
         [predictionIntervals |-> <<"sld">>, confidenceIntervals |-> <<>>,
          dreamOutput |-> <<>>, nestedSamplerOutput |-> <<>>],
     array_fields |->
         [predictionIntervals |-> <<"sampleChi">>,
          confidenceIntervals |-> <<"percentile65", "percentile95", "mean">>,
          dreamOutput |-> <<"allChains", "outlierChains", "AR", "R_stat", "CR">>,
          nestedSamplerOutput |-> <<"nestSamples", "postSamples">>]]

contrast_param_fields == <<"scalefactors", "bulkIn", "bulkOut", "subRoughs", "resample">>

\* no call of the writer yet
NoResults ==
    [bayes |-> FALSE, procedure |-> "None", contrasts |-> 0, domains |-> <<>>,
     sld |-> <<>>]

\* a Results object that is not a BayesResults
PlainResults(contrasts, domains) ==
    [bayes |-> FALSE, procedure |-> "calculate", contrasts |-> contrasts,
     domains |-> domains, sld |-> <<>>]

\* a BayesResults object; sld is predictionIntervals.sld
BayesResults(procedure, contrasts, domains, sld) ==
    [bayes |-> TRUE, procedure |-> procedure, contrasts |-> contrasts,
     domains |-> domains, sld |-> sld]

\* the results of the calculations: 1..MaxContrasts contrasts of 1..MaxDomains domains
AllResults ==
    UNION {{PlainResults(n, d) : d \in [1..n -> 1..MaxDomains]}
           \cup {BayesResults(p, n, d, sl) : p \in {"ns", "dream"},
                     d \in [1..n -> 1..MaxDomains], sl \in [1..n -> 1..MaxDomains]} :
           n \in 1..MaxContrasts}

\* the elements of a list
Range(seq) == {seq[i] : i \in 1..Len(seq)}

RECURSIVE Flatten(_)
Flatten(ss) == IF ss = <<>> THEN <<>> ELSE Head(ss) \o Flatten(Tail(ss))

\* the writestr calls of a loop over a list field of n arrays
ListFieldNames(prefix, list_field, n) ==
    [k \in 1..n |-> prefix \o list_field \o "_contrast" \o ToString(k - 1) \o ".csv"]

\* the domain suffix always written
domain_always(len, j) == "_domain" \o ToString(j)

\* domain = "" if len(actual_list[i]) == 1 else f"_domain{j}"
domain(len, j) == IF len = 1 THEN "" ELSE "_domain" \o ToString(j)

\* the writestr calls of a loop over a double-list field
DoubleListFieldNames(prefix, list_field, actual_list) ==
    Flatten([k \in 1..Len(actual_list) |->
               [m \in 1..actual_list[k] |->
                   prefix \o list_field \o "_contrast" \o ToString(k - 1)
                       \o domain(actual_list[k], m - 1) \o ".csv"]])

\* dreamOutput whatever the procedure
procedure_field_dream(res) == "dreamOutput"

procedure_field(res) ==
    IF res.procedure = "ns" THEN "nestedSamplerOutput" ELSE "dreamOutput"

\* the writestr calls for one inner class of a BayesResults
InnerClassNames(res, inner_class) ==
    LET lf == bayes_results_fields.list_fields[inner_class]
        df == bayes_results_fields.double_list_fields[inner_class]
        af == bayes_results_fields.array_fields[inner_class]
        prefix == "Bayes/" \o inner_class \o "_"
    IN Flatten([f \in 1..Len(lf) |-> ListFieldNames(prefix, lf[f], res.contrasts)])
       \o Flatten([f \in 1..Len(df) |-> DoubleListFieldNames(prefix, df[f], res.sld)])
       \o [f \in 1..Len(af) |-> prefix \o af[f] \o ".csv"]

\* write_result_to_zipped_csvs(filename, results): the names given to writestr
write_result_to_zipped_csvs(res) ==
    LET lf == results_fields.list_fields
        df == results_fields.double_list_fields
        inner_classes == <<"predictionIntervals", "confidenceIntervals",
                           procedure_field(res)>>
    IN Flatten([f \in 1..Len(lf) |-> ListFieldNames("", lf[f], res.contrasts)])
       \o Flatten([f \in 1..Len(df) |-> DoubleListFieldNames("", df[f], res.domains)])
       \o [f \in 1..Len(contrast_param_fields) |->
              "contrastParams/" \o contrast_param_fields[f] \o ".csv"]
       \o IF ~res.bayes THEN <<>>
          ELSE Flatten([c \in 1..Len(inner_classes) |->
                          InnerClassNames(res, inner_classes[c])])

\* nothing has been written
WriterIdle ==
    /\ zip_results = NoResults
    /\ namelist = <<>>

\* the results of a calculation are exported: ZipFile(filename, "w") starts an
\* empty archive
WriteResult ==
    /\ zip_results = NoResults
    /\ \E r \in AllResults :
        /\ zip_results' = r
        /\ namelist' = write_result_to_zipped_csvs(r)
    /\ UNCHANGED <<pvars, wvars, evars, svars, tvars, nvars>>

(***************************************************************************)
(* rascal2/core/commands.py                                                *)
(***************************************************************************)
EditControlsID == 1000
EditProjectID == 2000

\* MainWindowModel.update_controls / update_project: vars(obj).update(new_values)
update_attribute(obj, new_values) ==
    [k \in DOMAIN obj |-> IF k \in KeySet(new_values) THEN Get(new_values, k) ELSE obj[k]]

\* the model object a command edits (getattr(presenter.model, attribute))
model_class(m, attribute) == IF attribute = "controls" THEN m.controls ELSE m.project

SetAttribute(m, attribute, new_values) ==
    IF attribute = "controls"
    THEN [m EXCEPT !.controls = update_attribute(m.controls, new_values)]
    ELSE [m EXCEPT !.project = update_attribute(m.project, new_values)]

\* the undo text: "Set <attribute> <attr> to <value>" or "Save update to <attribute>"
update_text(attribute, new_values) ==
    IF Len(new_values) = 1
    THEN <<"Set", attribute, new_values[1][1], new_values[1][2]>>
    ELSE <<"Save update to", attribute>>

\* AbstractModelEdit.__init__ (history fields: snapshot is the edited object as it
\* was when the command was constructed, ran and changed tell that a redo() of
\* the command has called quick_run and has changed the model results)
OldValuesOf(m, attribute, new_values) ==
    [i \in 1..Len(new_values) |->
        <<new_values[i][1], model_class(m, attribute)[new_values[i][1]]>>]

NewCommand(attribute, new_values, preview, m) ==
    [attribute |-> attribute,
     preview |-> preview,
     new_values |-> new_values,
     old_values |-> OldValuesOf(m, attribute, new_values),
     new_result |-> NoResult,
     old_result |-> m.results,
     text |-> update_text(attribute, new_values),
     obsolete |-> FALSE,
     snapshot |-> [obj |-> [k \in KeySet(new_values) |-> model_class(m, attribute)[k]],
                   results |-> m.results],
     ran |-> FALSE,
     changed |-> FALSE]

id(c) == IF c.attribute = "controls" THEN EditControlsID ELSE EditProjectID

\* AbstractModelEdit.undo
UndoResults(c, m) == IF c.preview THEN c.old_result ELSE m.results

\* undo() that restores the results and not the attributes
CmdUndoKeepsAttributes(c, m) == [m EXCEPT !.results = UndoResults(c, m)]

CmdUndo(c, m) ==
    [SetAttribute(m, c.attribute, c.old_values) EXCEPT !.results = UndoResults(c, m)]

\* what presenter.quick_run() does when it is called: it raises, or returns a result
QuickRunOutcomes ==
    {[raises |-> TRUE, result |-> NoResult]}
        \cup {[raises |-> FALSE, result |-> r] : r \in Results}

\* the outcome handed to a redo() that cannot call quick_run (no preview)
NotCalled == [raises |-> FALSE, result |-> NoResult]

\* AbstractModelEdit.redo; qr is the outcome of presenter.quick_run() if called
RedoNewResult(c, qr) ==
    IF c.preview
    THEN IF c.new_result = NoResult
         THEN IF qr.raises THEN c.old_result ELSE qr.result
         ELSE c.new_result
    ELSE c.old_result

RedoCallsQuickRun(c) == c.preview /\ c.new_result = NoResult

\* redo() with the exception of quick_run escaping: the attribute is set and
\* nothing after the call runs
CmdRedoNoExcept(c, m, qr) ==
    LET nr == RedoNewResult(c, qr)
        ran == RedoCallsQuickRun(c)
        esc == ran /\ qr.raises
        m1 == SetAttribute(m, c.attribute, c.new_values)
    IN [cmd |-> [c EXCEPT !.new_result = IF esc THEN @ ELSE nr, !.ran = @ \/ ran,
                          !.changed = @ \/ (c.preview /\ ~esc /\ nr # m.results)],
        m |-> IF c.preview /\ ~esc THEN [m1 EXCEPT !.results = nr] ELSE m1,
        ran |-> ran, rerun |-> ran /\ c.ran,
        raised |-> esc, caught |-> FALSE, logged |-> 0, terminal |-> 0]

CmdRedo(c, m, qr) ==
    LET nr == RedoNewResult(c, qr)
        ran == RedoCallsQuickRun(c)
        caught == ran /\ qr.raises
        m1 == SetAttribute(m, c.attribute, c.new_values)
    IN [cmd |-> [c EXCEPT !.new_result = nr, !.ran = @ \/ ran,
                          !.changed = @ \/ (c.preview /\ nr # m.results)],
        m |-> IF c.preview THEN [m1 EXCEPT !.results = nr] ELSE m1,
        ran |-> ran,
        rerun |-> ran /\ c.ran,
        raised |-> FALSE,
        caught |-> caught,
        logged |-> IF caught THEN 1 ELSE 0,
        terminal |-> IF caught THEN 1 ELSE 0]

\* mergeWith comparing the keys as sets, not as lists
MergeKeySetsEqual(c, command) == KeySet(c.new_values) = KeySet(command.new_values)

\* AbstractModelEdit.mergeWith
MergeKeysEqual(c, command) == Keys(c.new_values) = Keys(command.new_values)

\* the merged command obsolete when the absorbed command repeats its new values
MergeObsoleteWhenRepeated(c, command) == Values(c.new_values) = Values(command.new_values)

MergeObsolete(c, command) == Values(c.old_values) = Values(command.new_values)

mergeWith(c, command) ==
    IF ~MergeKeysEqual(c, command)
    THEN [ret |-> FALSE, cmd |-> c]
    ELSE [ret |-> TRUE,
          cmd |-> [c EXCEPT !.obsolete = IF MergeObsolete(c, command) THEN TRUE ELSE @,
                            !.preview = command.preview,
                            !.new_result = command.new_result,
                            !.new_values = command.new_values,
                            !.text = update_text(c.attribute, command.new_values)]]

(***************************************************************************)
(* rascal2/core/commands.py: SaveCalculationOutputs.  An object is a value *)
(* and the place it is stored at (ref): copy.deepcopy makes an object of   *)
(* the same value at a new place, None is the same object everywhere.      *)
(***************************************************************************)
\* ratapi.project.parameter_class_lists and parameter_field, two of the seven
parameter_class_lists == <<"parameters", "bulk_in">>
parameter_field == [parameters |-> "params", bulk_in |-> "bulkIns"]

\* a place: the owner and the number of the command, 0 outside commands
Place(owner, n) == [owner |-> owner, n |-> n]

None == [value |-> NoResult, ref |-> Place("None", 0)]

\* the results of a run are 1 or 2
RunResultValues == {1, 2}
Logs == {"", "log a", "log b"}

\* the object of value v the owner keeps
Object(v, owner) == IF v = NoResult THEN None ELSE [value |-> v, ref |-> owner]

\* copy.deepcopy(x), the new object being kept by owner
deepcopy(x, owner) == Object(x.value, owner)

\* ratapi.inputs.make_problem(project): the parameter values of the project
make_problem(values) ==
    [f \in {parameter_field[k] : k \in DOMAIN parameter_field} |->
        values[CHOOSE k \in DOMAIN parameter_field : parameter_field[k] = f]]

\* SaveCalculationOutputs.get_parameter_values
get_parameter_values(problem) ==
    [i \in 1..Len(parameter_class_lists) |->
        <<parameter_class_lists[i], problem[parameter_field[parameter_class_lists[i]]]>>]

\* SaveCalculationOutputs.set_parameter_values on the project values pv
RECURSIVE set_parameter_values(_, _)
set_parameter_values(pv, values) ==
    IF values = <<>> THEN pv
    ELSE LET key == values[1][1]
             value == values[1][2]
         IN set_parameter_values(
                [pv EXCEPT ![key] = [i \in 1..Len(@) |->
                                        IF i <= Len(value) THEN value[i]
                                        ELSE @[i]]],
                Tail(values))

\* the outputs the model holds, results by value
Outputs(pv, mres, mlog) == [parameter_values |-> pv, results |-> mres.value, log |-> mlog]

\* SaveCalculationOutputs.__init__; n numbers the command; history field: before
\* holds the outputs of the model when redo() was last called
SaveCalculationOutputs(problem, run_results, log, pv, mres, mlog, n) ==
    [results |-> run_results,
     log |-> log,
     problem |-> get_parameter_values(problem),
     old_problem |-> get_parameter_values(make_problem(pv)),
     old_results |-> deepcopy(mres, Place("old_results", n)),
     old_log |-> mlog,
     text |-> "Save calculation results",
     before |-> Outputs(pv, mres, mlog)]

CDid(op) ==
    [op |-> op, chi_text |-> "", terminal |-> <<>>, project_views |-> 0, handed |-> None]

\* no copy: the object itself
same_object(x, owner) == x

\* the copy of the results update_calculation_outputs hands to the model
copy_of_results(res, owner) == deepcopy(res, owner)

\* SaveCalculationOutputs.update_calculation_outputs
update_calculation_outputs(pv, problem, res, log, op) ==
    LET handed == copy_of_results(res, Place("model", 0))
    IN [parameter_values |-> set_parameter_values(pv, problem),
        model_results |-> handed,
        result_log |-> log,
        did |-> [CDid(op) EXCEPT
                    !.chi_text = IF res = None THEN "" ELSE "sumChi",
                    !.terminal = <<"clear", log>>,
                    !.project_views = 1,
                    !.handed = handed]]

\* SaveCalculationOutputs.undo
outputs_undo(c, pv) == update_calculation_outputs(pv, c.old_problem, c.old_results, c.old_log, "undo")

\* SaveCalculationOutputs.redo
outputs_redo(c, pv, op) == update_calculation_outputs(pv, c.problem, c.results, c.log, op)

\* the projects: two parameters and one bulk in
ParameterValues == [parameters : Vals \X Vals, bulk_in : [1..1 -> Vals]]

\* no calculation has been run
NoOutputs ==
    /\ parameter_values = [parameters |-> <<0, 0>>, bulk_in |-> <<0>>]
    /\ model_results = None
    /\ result_log = ""
    /\ outputs_commands = <<>>
    /\ outputs_index = 0
    /\ clast = CDid("init")

SetOutputs(r) ==
    /\ parameter_values' = r.parameter_values
    /\ model_results' = r.model_results
    /\ result_log' = r.result_log
    /\ clast' = r.did

\* presenter.handle_results: the run has finished with runner.updated_problem,
\* runner.results and the text of the terminal; the command is pushed (the
\* undone commands are dropped) and redone
HandleResults ==
    /\ outputs_index < MaxRuns
    /\ \E pv \in ParameterValues, v \in RunResultValues, log \in Logs \ {""} :
        LET n == outputs_index + 1
            c == SaveCalculationOutputs(make_problem(pv), Object(v, Place("results", n)), log,
                                        parameter_values, model_results, result_log, n)
        IN /\ outputs_commands' = Append(SubSeq(outputs_commands, 1, outputs_index), c)
           /\ outputs_index' = n
           /\ SetOutputs(outputs_redo(c, parameter_values, "push"))
    /\ UNCHANGED outside_cvars

\* the undo action of the view with a SaveCalculationOutputs on top
UndoOutputs ==
    /\ outputs_index > 0
    /\ SetOutputs(outputs_undo(outputs_commands[outputs_index], parameter_values))
    /\ outputs_index' = outputs_index - 1
    /\ UNCHANGED <<outputs_commands, outside_cvars>>

\* the redo action of the view
RedoOutputs ==
    /\ outputs_index < Len(outputs_commands)
    /\ SetOutputs(outputs_redo(outputs_commands[outputs_index + 1], parameter_values,
                               "redo"))
    /\ outputs_index' = outputs_index + 1
    /\ outputs_commands' =
           [outputs_commands EXCEPT ![outputs_index + 1].before =
               Outputs(parameter_values, model_results, result_log)]
    /\ UNCHANGED outside_cvars

(***************************************************************************)
(* rascal2/dialogs/custom_file_editor.py: the Singleton metaclass of       *)
(* CustomFileEditorDialog, edit_file and reject.  What the dialog does with *)
(* the text of the file is in the section of the dialog above.             *)
(***************************************************************************)
\* CustomFileEditorDialog.__init__ has run once on a new dialog
NewDialog == [inits |-> 1, file |-> NoFile, visible |-> FALSE, rejected |-> FALSE]

DDid(op) == [op |-> op, ret |-> 0, created |-> FALSE, logged |-> 0]

\* Singleton.__init__: no instance
NoDialog ==
    /\ cls_instance = 0
    /\ dialogs = <<>>
    /\ dlast = DDid("init")

\* a call that constructs and initialises a dialog whatever cls._instance is
always_construct(inst, ds) ==
    [instance |-> Len(ds) + 1, dialogs |-> Append(ds, NewDialog), created |-> TRUE]

\* Singleton.__call__
singleton_call(inst, ds) ==
    IF inst = 0
    THEN [instance |-> Len(ds) + 1, dialogs |-> Append(ds, NewDialog), created |-> TRUE]
    ELSE [instance |-> inst, dialogs |-> ds, created |-> FALSE]

\* CustomFileEditorDialog.reject on dialog d: the class forgets its instance,
\* QDialog.reject hides the dialog
dialog_reject(inst, ds, d) ==
    [instance |-> 0, dialogs |-> [ds EXCEPT ![d].visible = FALSE, ![d].rejected = TRUE]]

\* CustomFileEditorDialog(parent), as the fixture of the tests calls it
ConstructDialog ==
    /\ cls_instance # 0 \/ Len(dialogs) < MaxDialogs
    /\ LET r == singleton_call(cls_instance, dialogs)
       IN /\ cls_instance' = r.instance
          /\ dialogs' = r.dialogs
          /\ dlast' = [DDid("construct") EXCEPT !.ret = r.instance, !.created = r.created]
    /\ UNCHANGED outside_dvars

\* edit_file(filename, language, parent); is_file tells whether the file exists
EditFile ==
    /\ cls_instance # 0 \/ Len(dialogs) < MaxDialogs
    /\ \E f \in Files, is_file \in BOOLEAN :
        IF ~is_file
        THEN /\ dlast' = [DDid("edit_file") EXCEPT !.logged = 1]
             /\ UNCHANGED <<cls_instance, dialogs>>
        ELSE LET r == singleton_call(cls_instance, dialogs)
             IN /\ cls_instance' = r.instance
                /\ dialogs' = [r.dialogs EXCEPT ![r.instance].file = f,
                                                ![r.instance].visible = TRUE]
                /\ dlast' = [DDid("edit_file") EXCEPT !.ret = r.instance,
                                                      !.created = r.created]
    /\ UNCHANGED outside_dvars

\* reject(): the Close button, the Escape key or the close box of a dialog on
\* screen, or the holder of the instance calling it
RejectDialog ==
    /\ \E d \in DOMAIN dialogs :
        /\ dialogs[d].visible \/ d = cls_instance
        /\ LET r == dialog_reject(cls_instance, dialogs, d)
           IN /\ cls_instance' = r.instance
              /\ dialogs' = r.dialogs
              /\ dlast' = [DDid("reject") EXCEPT !.ret = d]
    /\ UNCHANGED outside_dvars

(***************************************************************************)
(* rascal2/ui/presenter.py: run, handle_event and get_live_chi_squared.    *)
(* The runner (rascal2/core/runner.py) puts an event on runner.events and  *)
(* emits event_received once for it.                                       *)
(***************************************************************************)
\* the procedures of a run; chi_squared_patterns has the first two
RunProcedures == {"simplex", "de", "calculate"}

\* the messages of a run: a plain line, an iteration line of simplex and an
\* iteration line of de
Messages == {"Starting", " 10   2.5   1.25", "Iter 3 Best: 0.75"}

\* re.search of r"(\d+\.\d+)": group 1 of the first match, "None" without one
search_simplex(item) ==
    IF item = " 10   2.5   1.25" THEN "2.5"
    ELSE IF item = "Iter 3 Best: 0.75" THEN "0.75"
    ELSE "None"

\* re.search of r"Best: (\d+\.\d+)"
search_de(item) == IF item = "Iter 3 Best: 0.75" THEN "0.75" ELSE "None"

\* get_live_chi_squared
get_live_chi_squared(item, proc) ==
    IF proc \notin {"simplex", "de"} THEN "None"
    ELSE IF proc = "simplex" THEN search_simplex(item)
    ELSE search_de(item)

\* the events of a run: their type and their data
EventTypes == {"str", "ProgressEventData", "PlotEventData", "LogData"}
EventData == [type : {"str"}, data : Messages]
             \cup [type : EventTypes \ {"str"}, data : {"data"}]

HDid(op) ==
    [op |-> op, event |-> [type |-> "None", data |-> "", n |-> 0], sinks |-> <<>>,
     raised |-> "None"]

\* no run has been started
RunnerIdle ==
    /\ events = <<>>
    /\ signals = 0
    /\ running = FALSE
    /\ run_procedure = "calculate"
    /\ chi_squared_label = ""
    /\ queued = <<>>
    /\ handled = <<>>
    /\ hlast = HDid("init")

\* handle_event taking the newest event: events.pop()
handle_newest_event(evs, proc, label) ==
    IF evs = <<>> THEN [events |-> evs, label |-> label, event |-> HDid("").event,
                        sinks |-> <<>>, raised |-> "IndexError"]
    ELSE LET event == evs[Len(evs)]
             chi_squared == get_live_chi_squared(event.data, proc)
         IN [events |-> SubSeq(evs, 1, Len(evs) - 1),
             label |-> IF event.type = "str" /\ chi_squared # "None" THEN chi_squared
                       ELSE label,
             event |-> event,
             sinks |-> IF event.type = "str"
                       THEN IF chi_squared # "None"
                            THEN <<"terminal_widget.write", "chi_squared.setText">>
                            ELSE <<"terminal_widget.write">>
                       ELSE IF event.type = "ProgressEventData"
                       THEN <<"terminal_widget.update_progress">>
                       ELSE IF event.type = "PlotEventData"
                       THEN <<"plot_widget.plot_with_blit">>
                       ELSE IF event.type = "LogData" THEN <<"logging.log">>
                       ELSE <<>>,
             raised |-> "None"]

\* MainWindowPresenter.handle_event
handle_event(evs, proc, label) ==
    IF evs = <<>> THEN [events |-> evs, label |-> label, event |-> HDid("").event,
                        sinks |-> <<>>, raised |-> "IndexError"]
    ELSE LET event == Head(evs)
             chi_squared == get_live_chi_squared(event.data, proc)
         IN [events |-> Tail(evs),
             label |-> IF event.type = "str" /\ chi_squared # "None" THEN chi_squared
                       ELSE label,
             event |-> event,
             sinks |-> IF event.type = "str"
                       THEN IF chi_squared # "None"
                            THEN <<"terminal_widget.write", "chi_squared.setText">>
                            ELSE <<"terminal_widget.write">>
                       ELSE IF event.type = "ProgressEventData"
                       THEN <<"terminal_widget.update_progress">>
                       ELSE IF event.type = "PlotEventData"
                       THEN <<"plot_widget.plot_with_blit">>
                       ELSE IF event.type = "LogData" THEN <<"logging.log">>
                       ELSE <<>>,
             raised |-> "None"]

\* MainWindowPresenter.run: a new runner; the run action is there when the run
\* before has finished or stopped, which the runner tells after its events
Run ==
    /\ ~running
    /\ signals = 0
    /\ running' = TRUE
    /\ \E proc \in RunProcedures : run_procedure' = proc
    /\ events' = <<>>
    /\ queued' = <<>>
    /\ handled' = <<>>
    /\ hlast' = HDid("run")
    /\ UNCHANGED <<signals, chi_squared_label, outside_hvars>>

\* the runner receives an event of the run
ReceiveEvent ==
    /\ running
    /\ Len(queued) < MaxEvents
    /\ \E e \in EventData :
        LET event == [type |-> e.type, data |-> e.data, n |-> Len(queued) + 1]
        IN /\ events' = Append(events, event)
           /\ queued' = Append(queued, event)
    /\ signals' = signals + 1
    /\ hlast' = HDid("event_received.emit")
    /\ UNCHANGED <<running, run_procedure, chi_squared_label, handled, outside_hvars>>

\* an event_received signal is delivered: handle_event
HandleEvent ==
    /\ signals > 0
    /\ signals' = signals - 1
    /\ LET r == handle_event(events, run_procedure, chi_squared_label)
       IN /\ events' = r.events
          /\ chi_squared_label' = r.label
          /\ handled' = IF r.raised = "None" THEN Append(handled, r.event) ELSE handled
          /\ hlast' = [HDid("handle_event") EXCEPT !.event = r.event, !.sinks = r.sinks,
                                                   !.raised = r.raised]
    /\ UNCHANGED <<running, run_procedure, queued, outside_hvars>>

\* the runner tells that the run has finished or stopped
FinishRun ==
    /\ running
    /\ signals = 0
    /\ running' = FALSE
    /\ hlast' = HDid("finished")
    /\ UNCHANGED <<events, signals, run_procedure, chi_squared_label, queued, handled,
                   outside_hvars>>

(***************************************************************************)
(* rascal2/widgets/sliders_view.py: one LabeledSlider, with the position   *)
(* of its QSlider and the flag that blocks _update_value.  Values are in   *)
(* hundredths, so that the step of a slider is a whole number; the label   *)
(* format "{:.4g}" keeps every value of the model as it is.                *)
(***************************************************************************)
\* the parameters a slider is given: min, max (min = max allowed) and value
SliderMins == {0, 100}
SliderRanges == {0, 300, 800}
SliderParams ==
    {[min |-> lo, max |-> lo + rg, value |-> lo + v] :
        lo \in SliderMins, rg \in SliderRanges, v \in {0, 100, 200, 300, 800}}
SliderRows == {0, 2}
\* where the user drops the slider
UserPositions == {0, 12, 50, slider_max_idx}

LDid(op) == [op |-> op, calls |-> <<>>, blocked |-> 0, raised |-> "None"]

\* LabeledSlider._value_to_slider_pos, for a range that is not 0
value_to_slider_pos(s, value) ==
    Round(slider_max_idx * (value - s.value_min), s.value_range)

\* QSlider.setValue: inside 0..slider_max_idx
SliderSetValue(idx) ==
    IF idx < 0 THEN 0 ELSE IF idx > slider_max_idx THEN slider_max_idx ELSE idx

\* LabeledSlider.__init__ and _build_slider for a property whose range is not 0
BuiltSlider(param, row) ==
    LET s == [value_min |-> param.min, value_max |-> param.max, value |-> param.value,
              value_range |-> param.max - param.min, value_label |-> param.value,
              pos |-> 0, block |-> FALSE, row_number |-> row]
    IN [s EXCEPT !.pos = SliderSetValue(value_to_slider_pos(s, param.value))]

ProperParams == {q \in SliderParams : q.min < q.max /\ q.value <= q.max}
AllowedParams == {q \in SliderParams : q.value <= q.max}

\* a slider of a fixed property
OneSlider ==
    /\ labeled_slider = BuiltSlider([min |-> 0, max |-> 300, value |-> 100], 0)
    /\ llast = LDid("init")

\* SliderChangeHolder.update_value_representation as the slider calls it: the
\* call of setData it makes
setData_call(s, val, recalculate_project) ==
    [row |-> s.row_number, column |-> 4, value |-> val, role |-> "EditRole",
     recalculate_project |-> recalculate_project]

\* LabeledSlider._update_value(idx), the slot of valueChanged
sliders_update_value(s, idx, d) ==
    IF s.block THEN [slider |-> s, did |-> [d EXCEPT !.blocked = @ + 1]]
    ELSE LET val == slider_pos_to_value(s, idx)
         IN [slider |-> [s EXCEPT !.value = val, !.value_label = val],
             did |-> [d EXCEPT !.calls = Append(@, setData_call(s, val, TRUE))]]

\* set_slider_gui_position moving the slider with the signal not blocked
set_slider_gui_position_unblocked(s, value, d) ==
    LET s1 == [s EXCEPT !.value = value, !.value_label = value]
    IN IF s.value_range = 0
       THEN [slider |-> s1, did |-> [d EXCEPT !.raised = "ZeroDivisionError"]]
       ELSE LET idx == SliderSetValue(value_to_slider_pos(s1, value))
                s3 == [s1 EXCEPT !.pos = idx]
            IN IF idx # s.pos THEN sliders_update_value(s3, idx, d)
               ELSE [slider |-> s3, did |-> d]

\* LabeledSlider.set_slider_gui_position(value); QSlider.setValue emits
\* valueChanged when the position changes
set_slider_gui_position(s, value, d) ==
    LET s1 == [s EXCEPT !.value = value, !.value_label = value]
    IN IF s.value_range = 0
       THEN [slider |-> s1, did |-> [d EXCEPT !.raised = "ZeroDivisionError"]]
       ELSE LET idx == SliderSetValue(value_to_slider_pos(s1, value))
                s2 == [s1 EXCEPT !.block = TRUE]
                s3 == [s2 EXCEPT !.pos = idx]
                r == IF idx # s.pos THEN sliders_update_value(s3, idx, d)
                     ELSE [slider |-> s3, did |-> d]
            IN [slider |-> [r.slider EXCEPT !.block = FALSE], did |-> r.did]

\* LabeledSlider.update_slider_parameters with the property as it is now:
\* _updated_from_rascal_property and update_slider_display_from_property
sliders_update_slider_parameters(s, param, row, d) ==
    LET updated == s.value_min # param.min \/ s.value_max # param.max
                   \/ s.value # param.value
        s1 == [s EXCEPT !.row_number = row, !.value_min = param.min,
                        !.value_max = param.max, !.value = param.value]
    IN IF ~updated THEN [slider |-> s1, did |-> d]
       ELSE set_slider_gui_position([s1 EXCEPT !.value_range = param.max - param.min],
                                    param.value, d)

\* a call of set_slider_gui_position with a value of the range of the slider
SetSliderGuiPosition ==
    /\ \E q \in AllowedParams :
        /\ q.min = labeled_slider.value_min /\ q.max = labeled_slider.value_max
        /\ LET r == set_slider_gui_position(labeled_slider, q.value,
                                            LDid("set_slider_gui_position"))
           IN /\ labeled_slider' = r.slider
              /\ llast' = r.did
    /\ UNCHANGED outside_lvars

\* the table of the property has changed: update_slider_parameters
UpdateSliderParameters ==
    /\ \E q \in AllowedParams, row \in SliderRows :
        LET r == sliders_update_slider_parameters(labeled_slider, q, row,
                                                  LDid("update_slider_parameters"))
        IN /\ labeled_slider' = r.slider
           /\ llast' = r.did
    /\ UNCHANGED outside_lvars

\* the user moves the slider to another position: valueChanged, _update_value
UserMovesSlider ==
    /\ \E idx \in UserPositions :
        /\ idx # labeled_slider.pos
        /\ LET r == sliders_update_value([labeled_slider EXCEPT !.pos = idx], idx,
                                         LDid("user"))
           IN /\ labeled_slider' = r.slider
              /\ llast' = r.did
    /\ UNCHANGED outside_lvars

(***************************************************************************)
(* rascal2/widgets/plot.py: RefSLDWidget.  A rendering is the call of      *)
(* ratapi.plotting that draws: plot_ref_sld_helper, the construction of a  *)
(* BlittingSupport or the update of one.                                   *)
(***************************************************************************)
\* current_plot_data is None
NoPlotData == [n |-> 0, contrastNames |-> <<>>]

\* the plot event data supplied: which one, and its contrast names
PlotEventData == [n : {1, 2}, contrastNames : {<<>>, <<"D2O">>}]

\* the controls and what they can be set to; the shift slider goes from 1 to 100
ControlValues ==
    [x_axis |-> {"Log", "Linear"}, y_axis |-> {"Ref", "Q^4"},
     show_error_bar |-> BOOLEAN, show_grid |-> BOOLEAN, show_legend |-> BOOLEAN,
     slider |-> {1, 100}]

\* make_control_layout, make_toolbar_widget and AbstractPlotWidget.__init__
NewRefSLDWidget ==
    [x_axis |-> "Log", y_axis |-> "Ref", show_error_bar |-> TRUE, show_grid |-> FALSE,
     show_legend |-> TRUE, slider |-> 1, current_plot_data |-> NoPlotData,
     blit_plot |-> "None"]

GDid(op) == [op |-> op, rendered |-> <<>>, cleared |-> FALSE]

PlotIdle ==
    /\ ref_sld = NewRefSLDWidget
    /\ glast = GDid("init")

\* the arguments of a rendering of the current data of w through the call via
Rendering(w, via) ==
    [via |-> via, data |-> w.current_plot_data,
     linear_x |-> w.x_axis = "Linear", q4 |-> w.y_axis = "Q^4",
     show_error_bar |-> w.show_error_bar, show_grid |-> w.show_grid,
     show_legend |-> IF w.current_plot_data.contrastNames # <<>> THEN w.show_legend
                     ELSE FALSE,
     shift_value |-> w.slider]

\* RefSLDWidget.plot_event(data); data = NoPlotData is the call without data
plot_event(w, data) ==
    LET w1 == [w EXCEPT !.blit_plot = "None"]
        w2 == IF data # NoPlotData THEN [w1 EXCEPT !.current_plot_data = data] ELSE w1
    IN IF w2.current_plot_data = NoPlotData THEN [w |-> w2, rendered |-> <<>>]
       ELSE [w |-> w2, rendered |-> <<Rendering(w2, "plot_ref_sld_helper")>>]

\* RefSLDWidget.plot_with_blit(data)
plot_with_blit(w, data) ==
    LET w1 == IF data # NoPlotData THEN [w EXCEPT !.current_plot_data = data] ELSE w
    IN IF w1.current_plot_data = NoPlotData THEN [w |-> w1, rendered |-> <<>>]
       ELSE IF w1.blit_plot = "None"
       THEN [w |-> [w1 EXCEPT !.blit_plot = "BlittingSupport"],
             rendered |-> <<Rendering(w1, "BlittingSupport")>>]
       ELSE [w |-> w1, rendered |-> <<Rendering(w1, "blit_plot.update")>>]

\* handle_control_changed redrawing in full whatever blit_plot is
handle_control_changed_in_full(w) == plot_event(w, NoPlotData)

\* RefSLDWidget.handle_control_changed
handle_control_changed(w) ==
    IF w.blit_plot = "None" THEN plot_event(w, NoPlotData)
    ELSE plot_with_blit(w, NoPlotData)

\* the user changes a control: its signal calls handle_control_changed
ChangeControl ==
    /\ \E c \in DOMAIN ControlValues : \E v \in ControlValues[c] :
        /\ v # ref_sld[c]
        /\ LET r == handle_control_changed([ref_sld EXCEPT ![c] = v])
           IN /\ ref_sld' = r.w
              /\ glast' = [GDid("control") EXCEPT !.rendered = r.rendered]
    /\ UNCHANGED outside_gvars

\* RefSLDWidget.plot(project, results) with results: plot_event of their data
Plot ==
    /\ \E data \in PlotEventData :
        LET r == plot_event(ref_sld, data)
        IN /\ ref_sld' = r.w
           /\ glast' = [GDid("plot_event") EXCEPT !.rendered = r.rendered]
    /\ UNCHANGED outside_gvars

\* RefSLDWidget.plot(project, results) without project or results: clear()
PlotNone ==
    /\ glast' = [GDid("plot") EXCEPT !.cleared = TRUE]
    /\ UNCHANGED <<ref_sld, outside_gvars>>

\* a plot event of a run: handle_event calls plot_with_blit(event)
PlotWithBlit ==
    /\ \E data \in PlotEventData :
        LET r == plot_with_blit(ref_sld, data)
        IN /\ ref_sld' = r.w
           /\ glast' = [GDid("plot_with_blit") EXCEPT !.rendered = r.rendered]
    /\ UNCHANGED outside_gvars

(***************************************************************************)
(* QUndoStack (Qt): push, undo, redo, setClean, isClean, as the presenter  *)
(* and the view's undo/redo actions use them.  st is the stack, m the      *)
(* window model.                                                           *)
(***************************************************************************)
Stack == [command_list |-> command_list, index |-> index, clean_index |-> clean_index]
Model == [controls |-> controls, project |-> project, results |-> results]

isClean(st) == st.clean_index = st.index

setClean(st) == [st EXCEPT !.clean_index = st.index]

\* push: redo the command, drop the undone commands, then merge it into the
\* current command (same id, not at the clean index) or append it
StackPush(st, m, cmd, qr) ==
    LET r == CmdRedo(cmd, m, qr)
        kept == SubSeq(st.command_list, 1, st.index)
        cl == IF st.clean_index > st.index THEN -1 ELSE st.clean_index
        try_merge == st.index > 0 /\ id(kept[st.index]) = id(cmd) /\ st.index # cl
        mg == mergeWith(kept[st.index], r.cmd)
    IN IF try_merge /\ mg.ret
       THEN IF mg.cmd.obsolete
            THEN [st |-> [command_list |-> SubSeq(kept, 1, st.index - 1),
                          index |-> st.index - 1, clean_index |-> cl],
                  m |-> r.m, redo |-> r, deleted |-> <<mg.cmd>>, merged |-> TRUE]
            ELSE [st |-> [command_list |-> [kept EXCEPT ![st.index] = mg.cmd],
                          index |-> st.index, clean_index |-> cl],
                  m |-> r.m, redo |-> r, deleted |-> <<>>, merged |-> TRUE]
       ELSE [st |-> [command_list |-> Append(kept, r.cmd),
                     index |-> st.index + 1, clean_index |-> cl],
             m |-> r.m, redo |-> r, deleted |-> <<>>, merged |-> FALSE]

StackUndo(st, m) ==
    [st |-> [st EXCEPT !.index = @ - 1],
     m |-> CmdUndo(st.command_list[st.index], m),
     cmd |-> st.command_list[st.index]]

StackRedo(st, m, qr) ==
    LET r == CmdRedo(st.command_list[st.index + 1], m, qr)
    IN [st |-> [st EXCEPT !.index = @ + 1, !.command_list[st.index + 1] = r.cmd],
        m |-> r.m, redo |-> r, cmd |-> r.cmd]

(***************************************************************************)
(* rascal2/ui/presenter.py: MainWindowPresenter                            *)
(***************************************************************************)
\* a project folder inside EXAMPLES_PATH, and two outside it
ExamplesProject == "examples/project"
Paths == {ExamplesProject, "a", "b"}
\* view.get_project_folder() when the user picks no folder
NoFolder == ""
InExamples(path) == path = ExamplesProject

Save == "Save"
Discard == "Discard"
Cancel == "Cancel"
UnsavedReply == {Save, Discard, Cancel}

\* the dicts edit_project is called with
ProjectDicts == DictsOver(ProjAttrs, Inputs)

\* what an operation did, for the properties to read
Did(op) ==
    [op |-> op, args |-> <<>>, valid |-> TRUE, ret |-> "None", pushes |-> 0, pushed |-> <<>>,
     merged |-> FALSE, deleted |-> <<>>, qr_raised |-> FALSE, ran |-> FALSE, rerun |-> FALSE, raised |-> FALSE, caught |-> FALSE,
     logged |-> 0, terminal |-> 0,
     saves |-> <<>>, recents |-> <<>>, cleaned |-> FALSE, dialogs |-> 0, folders |-> 0]

\* Controls.model_validate({setting: value}) succeeds
ControlsValidate(setting, value) == setting \in CtrlAttrs /\ value \in Vals

\* Project.model_validate(project_dict) succeeds
ProjectValidate(project_dict) == \A k \in DOMAIN project_dict : project_dict[k] \in Vals

WithPush(d, p) ==
    [d EXCEPT !.pushes = 1, !.pushed = <<p.redo.cmd>>, !.merged = p.merged,
              !.deleted = p.deleted,
              !.ran = p.redo.ran, !.rerun = p.redo.rerun, !.raised = p.redo.raised,
              !.ret = IF p.redo.raised THEN "Exception" ELSE "None", !.caught = p.redo.caught, !.logged = p.redo.logged,
              !.terminal = p.redo.terminal]

\* edit_controls pushing without validating
edit_controls_unchecked(st, m, setting, value) ==
    LET p == StackPush(st, m, NewCommand("controls", <<<<setting, value>>>>, FALSE, m),
                       NotCalled)
    IN [st |-> p.st, m |-> p.m, did |-> WithPush(Did("edit_controls"), p)]

edit_controls(st, m, setting, value) ==
    IF ~ControlsValidate(setting, value)
    THEN [st |-> st, m |-> m,
          did |-> [Did("edit_controls") EXCEPT !.ret = "ValidationError"]]
    ELSE LET p == StackPush(st, m, NewCommand("controls", <<<<setting, value>>>>, FALSE, m),
                            NotCalled)
         IN [st |-> p.st, m |-> p.m,
             did |-> WithPush(Did("edit_controls"), p)]

\* edit_project pushing without validating
edit_project_unchecked(st, m, updated_project, preview, qr) ==
    LET p == StackPush(st, m, NewCommand("project", updated_project, preview, m), qr)
    IN [st |-> p.st, m |-> p.m, did |-> WithPush(Did("edit_project"), p)]

edit_project(st, m, updated_project, preview, qr) ==
    LET project_dict == update_attribute(m.project, updated_project)
    IN IF ~ProjectValidate(project_dict)
       THEN [st |-> st, m |-> m,
             did |-> [Did("edit_project")
                         EXCEPT !.ret = "ValidationError"]]
       ELSE LET p == StackPush(st, m, NewCommand("project", updated_project, preview, m), qr)
            IN [st |-> p.st, m |-> p.m,
                did |-> WithPush(Did("edit_project"), p)]

\* MainWindowModel.save_project: what is written under the save path
ModelSave(m, path) == [path |-> path, controls |-> m.controls, project |-> m.project]

NeedsFolder(path, save_as) == save_as \/ InExamples(path)

\* save_project saving to the current path when no folder is chosen
save_project_ignores_cancel(st, path, m, save_as, to_path, d) ==
    LET new_path == IF NeedsFolder(path, save_as) /\ to_path # NoFolder THEN to_path ELSE path
    IN [st |-> setClean(st), path |-> new_path,
        did |-> [d EXCEPT !.ret = "True",
                          !.folders = IF NeedsFolder(path, save_as) THEN 1 ELSE 0,
                          !.saves = <<ModelSave(m, new_path)>>,
                          !.recents = <<new_path>>,
                          !.cleaned = TRUE]]

save_project(st, path, m, save_as, to_path, d) ==
    IF NeedsFolder(path, save_as) /\ to_path = NoFolder
    THEN [st |-> st, path |-> path,
          did |-> [d EXCEPT !.ret = "False", !.folders = 1]]
    ELSE LET new_path == IF NeedsFolder(path, save_as) THEN to_path ELSE path
         IN [st |-> setClean(st), path |-> new_path,
             did |-> [d EXCEPT !.ret = "True",
                               !.folders = IF NeedsFolder(path, save_as) THEN 1 ELSE 0,
                               !.saves = <<ModelSave(m, new_path)>>,
                               !.recents = <<new_path>>,
                               !.cleaned = TRUE]]

\* ask_to_save_project asking whatever the state of the undo stack
ask_to_save_project_always(st, path, m, reply, to_path, d) ==
    LET shown == [d EXCEPT !.dialogs = 1]
    IN IF reply = Save
       THEN save_project(st, path, m, FALSE, to_path, shown)
       ELSE IF reply = Cancel
            THEN [st |-> st, path |-> path, did |-> [shown EXCEPT !.ret = "False"]]
            ELSE [st |-> st, path |-> path, did |-> [shown EXCEPT !.ret = "True"]]

ask_to_save_project(st, path, m, reply, to_path, d) ==
    IF ~isClean(st)
    THEN LET shown == [d EXCEPT !.dialogs = 1]
         IN IF reply = Save
            THEN save_project(st, path, m, FALSE, to_path, shown)
            ELSE IF reply = Cancel
                 THEN [st |-> st, path |-> path, did |-> [shown EXCEPT !.ret = "False"]]
                 ELSE [st |-> st, path |-> path, did |-> [shown EXCEPT !.ret = "True"]]
    ELSE [st |-> st, path |-> path, did |-> [d EXCEPT !.ret = "True"]]

(***************************************************************************)
(* The presenter as a state machine: the user edits, undoes, redoes,       *)
(* saves and is asked to save.                                             *)
(***************************************************************************)
\* a project has been created or loaded: initialise_ui has cleared the undo stack
ProjectCreated ==
    /\ controls = [k \in CtrlAttrs |-> 0]
    /\ project = [k \in ProjAttrs |-> 0]
    /\ command_list = <<>>
    /\ index = 0
    /\ clean_index = 0
    /\ last = Did("init")

InitP ==
    /\ ProjectCreated
    /\ results \in {NoResult} \cup Results
    /\ save_path = "a"
    /\ WorkersIdle
    /\ EditorClosed
    /\ SliderViewClosed
    /\ SlidersViewConstructed
    /\ WriterIdle
    /\ NoOutputs
    /\ NoDialog
    /\ RunnerIdle
    /\ OneSlider
    /\ PlotIdle

SetStack(st) ==
    /\ command_list' = st.command_list
    /\ index' = st.index
    /\ clean_index' = st.clean_index

SetModel(m) ==
    /\ controls' = m.controls
    /\ project' = m.project
    /\ results' = m.results

EditControls ==
    \E setting \in CtrlAttrs, value \in Inputs :
        LET r == edit_controls(Stack, Model, setting, value)
            valid == ControlsValidate(setting, value)
        IN /\ Len(r.st.command_list) <= MaxStack
           /\ SetStack(r.st)
           /\ SetModel(r.m)
           /\ last' = [r.did EXCEPT !.valid = valid,
                                    !.args = IF valid THEN <<setting, value>> ELSE <<>>]
           /\ UNCHANGED <<save_path, wvars, evars, xvars>>

EditProject ==
    \E updated_project \in ProjectDicts, preview \in BOOLEAN :
      \E qr \in IF preview THEN QuickRunOutcomes ELSE {NotCalled} :
        LET r == edit_project(Stack, Model, updated_project, preview, qr)
            valid == ProjectValidate(update_attribute(project, updated_project))
        IN /\ Len(r.st.command_list) <= MaxStack
           /\ SetStack(r.st)
           /\ SetModel(r.m)
           /\ last' = [r.did EXCEPT !.valid = valid, !.qr_raised = qr.raises,
                                    !.args = IF valid THEN <<updated_project, preview>>
                                             ELSE <<>>]
           /\ UNCHANGED <<save_path, wvars, evars, xvars>>

Undo ==
    /\ index > 0
    /\ LET r == StackUndo(Stack, Model)
       IN /\ SetStack(r.st)
          /\ SetModel(r.m)
          /\ last' = Did("undo")
          /\ UNCHANGED <<save_path, wvars, evars, xvars>>

Redo ==
    /\ index < Len(command_list)
    /\ \E qr \in IF RedoCallsQuickRun(command_list[index + 1]) THEN QuickRunOutcomes
                   ELSE {NotCalled} :
        LET r == StackRedo(Stack, Model, qr)
        IN /\ SetStack(r.st)
           /\ SetModel(r.m)
           /\ last' = [Did("redo") EXCEPT !.qr_raised = qr.raises, !.ran = r.redo.ran,
                           !.rerun = r.redo.rerun, !.raised = r.redo.raised,
                           !.ret = IF r.redo.raised THEN "Exception" ELSE "None",
                           !.caught = r.redo.caught, !.logged = r.redo.logged,
                           !.terminal = r.redo.terminal]
           /\ UNCHANGED <<save_path, wvars, evars, xvars>>

SaveProject ==
    \E save_as \in BOOLEAN, to_path \in Paths \cup {NoFolder} :
        LET r == save_project(Stack, save_path, Model, save_as, to_path,
                              [Did("save_project") EXCEPT !.args = <<save_as, to_path>>])
        IN /\ SetStack(r.st)
           /\ save_path' = r.path
           /\ last' = r.did
           /\ UNCHANGED <<controls, project, results, wvars, evars, xvars>>

AskToSaveProject ==
    \E reply \in UnsavedReply, to_path \in Paths \cup {NoFolder} :
        LET r == ask_to_save_project(Stack, save_path, Model, reply, to_path,
                                     [Did("ask_to_save_project")
                                         EXCEPT !.args = <<reply, to_path>>])
        IN /\ SetStack(r.st)
           /\ save_path' = r.path
           /\ last' = r.did
           /\ UNCHANGED <<controls, project, results, wvars, evars, xvars>>

NextP == EditProject \/ Undo \/ Redo

NextS == EditControls \/ Undo \/ Redo \/ SaveProject \/ AskToSaveProject

vars == <<pvars, wvars, evars, xvars>>

SpecP == InitP /\ [][NextP]_vars

InitS ==
    /\ ProjectCreated
    /\ results = NoResult
    /\ save_path \in Paths
    /\ WorkersIdle
    /\ EditorClosed
    /\ SliderViewClosed
    /\ SlidersViewConstructed
    /\ WriterIdle
    /\ NoOutputs
    /\ NoDialog
    /\ RunnerIdle
    /\ OneSlider
    /\ PlotIdle

SpecS == InitS /\ [][NextS]_vars

(***************************************************************************)
(* Properties of the edit commands and the presenter.                      *)
(***************************************************************************)
Edits == {"edit_controls", "edit_project"}

\* the command whose redo() or undo() ran in the last operation
ActedCmd ==
    IF last.op = "redo" THEN command_list[index]
    ELSE IF last.op = "undo" THEN command_list[index + 1]
    ELSE last.pushed[1]

RedoRan == last.op = "redo" \/ (last.op \in Edits /\ last.pushes = 1)

NewValuesApplied(c) ==
    \A i \in 1..Len(c.new_values) :
        model_class(Model, c.attribute)[c.new_values[i][1]] = c.new_values[i][2]

\* C1: after redo() every edited attribute has its value of new_values, and
\* after undo() every edited attribute has the value it had when the command
\* was constructed, however often redo() and undo() alternate.
C1_RedoAppliesUndoRestores ==
    /\ RedoRan => NewValuesApplied(ActedCmd)
    /\ last.op = "undo" =>
          \A k \in DOMAIN ActedCmd.snapshot.obj :
              model_class(Model, ActedCmd.attribute)[k] = ActedCmd.snapshot.obj[k]

\* a redo() that follows an undo() and changes an attribute back to its new value
C1_Witness ==
    /\ last.op = "redo"
    /\ \E k \in DOMAIN ActedCmd.snapshot.obj :
          model_class(Model, ActedCmd.attribute)[k] # ActedCmd.snapshot.obj[k]

StackUnchanged == UNCHANGED <<command_list, index, clean_index>>

\* C5: edit_project validates the project dump overlaid with updated_project
\* before it touches the undo stack: an invalid overlay raises ValidationError,
\* pushes nothing and leaves the project and the stack as they were; a valid one
\* pushes exactly one EditProject command with updated_project and the preview flag.
C5_EditProjectValidatesBeforePush ==
    [][last'.op = "edit_project" =>
        IF ~last'.valid
        THEN /\ last'.ret = "ValidationError"
             /\ last'.pushes = 0
             /\ StackUnchanged
             /\ UNCHANGED <<project, controls, results>>
        ELSE /\ last'.ret = "None"
             /\ last'.pushes = 1
             /\ last'.pushed[1].attribute = "project"
             /\ last'.pushed[1].new_values = last'.args[1]
             /\ last'.pushed[1].preview = last'.args[2]]_vars

\* an invalid edit_project arriving when a command is on the stack
C5_Witness == last.op = "edit_project" /\ ~last.valid /\ index > 0

\* the command a merging push leaves behind (deleted at once when obsolete)
MergedCmd == IF last.deleted # <<>> THEN last.deleted[1] ELSE command_list[index]

C7_QuickRunFailureFallsBack ==
    (RedoRan /\ last.ran /\ last.qr_raised) =>
        /\ ~last.raised
        /\ last.ret # "Exception"
        /\ NewValuesApplied(ActedCmd)
        /\ ActedCmd.new_result = ActedCmd.old_result
        /\ last.logged = 1
        /\ last.terminal = 1
        /\ results = ActedCmd.old_result

\* quick_run raised in the first redo() of a preview edit made when results existed
C7_Witness ==
    /\ last.op = "edit_project"
    /\ last.ran /\ last.qr_raised
    /\ ~last.merged
    /\ results # NoResult
    /\ \E i \in 1..Len(ActedCmd.new_values) :
          ActedCmd.new_values[i][2] # ActedCmd.old_values[i][2]

\* C4: edit_controls validates {setting: value} before it touches the undo
\* stack: an invalid value raises ValidationError, pushes nothing and leaves the
\* controls and the stack as they were; a valid one pushes exactly one
\* EditControls command for {setting: value}.
C4_EditControlsValidatesBeforePush ==
    [][last'.op = "edit_controls" =>
        IF ~last'.valid
        THEN /\ last'.ret = "ValidationError"
             /\ last'.pushes = 0
             /\ StackUnchanged
             /\ UNCHANGED <<controls, project, results, wvars, evars, xvars>>
        ELSE /\ last'.ret = "None"
             /\ last'.pushes = 1
             /\ last'.pushed[1].attribute = "controls"
             /\ last'.pushed[1].new_values = <<last'.args>>
             /\ ~last'.pushed[1].preview]_vars

\* an invalid edit_controls arriving when the stack holds an unsaved command
C4_Witness == last.op = "edit_controls" /\ ~last.valid /\ index > 0 /\ ~isClean(Stack)

\* C8: save_project returns whether the project was saved.  When a folder has
\* to be chosen (save_as, or the save path lies in the examples) and none is
\* chosen it returns False, saves nothing, keeps save_path and does not mark the
\* stack clean; otherwise it saves the model to the chosen folder (or to the
\* save path), updates the recent projects, marks the stack clean and returns True.
C8_SaveProjectReportsSaving ==
    [][last'.op = "save_project" =>
        LET save_as == last'.args[1]
            to_path == last'.args[2]
            choose == save_as \/ InExamples(save_path)
            target == IF choose THEN to_path ELSE save_path
        IN IF choose /\ to_path = NoFolder
           THEN /\ last'.ret = "False"
                /\ last'.saves = <<>>
                /\ last'.recents = <<>>
                /\ save_path' = save_path
                /\ StackUnchanged
           ELSE /\ last'.ret = "True"
                /\ last'.saves = <<[path |-> target, controls |-> controls,
                                    project |-> project]>>
                /\ last'.recents = <<target>>
                /\ save_path' = target
                /\ clean_index' = index'
                /\ UNCHANGED <<command_list, index>>]_vars

\* save as is cancelled while the project has unsaved edits
C8_Witness ==
    /\ last.op = "save_project"
    /\ last.ret = "False"
    /\ ~InExamples(save_path)
    /\ ~isClean(Stack)

\* C9: ask_to_save_project asks only when the undo stack is not clean.  With a
\* clean stack it returns True and shows no dialog; with a dirty stack it shows
\* the dialog once and returns what save_project() returns for Save, True for
\* Discard and False for Cancel, saving nothing for the last two.  A stack just
\* saved is clean.
C9_AskOnlyWhenDirty ==
    /\ [](last.op = "save_project" /\ last.ret = "True" => isClean(Stack))
    /\ [][last'.op = "ask_to_save_project" =>
            LET reply == last'.args[1]
                to_path == last'.args[2]
            IN IF isClean(Stack)
               THEN /\ last'.ret = "True"
                    /\ last'.dialogs = 0
                    /\ last'.saves = <<>>
                    /\ StackUnchanged
                    /\ save_path' = save_path
               ELSE /\ last'.dialogs = 1
                    /\ reply = Save =>
                          LET r == save_project(Stack, save_path, Model, FALSE, to_path,
                                                Did("save_project"))
                          IN /\ last'.ret = r.did.ret
                             /\ last'.saves = r.did.saves
                             /\ save_path' = r.path
                             /\ clean_index' = r.st.clean_index
                    /\ reply = Discard =>
                          /\ last'.ret = "True"
                          /\ last'.saves = <<>>
                          /\ StackUnchanged
                    /\ reply = Cancel =>
                          /\ last'.ret = "False"
                          /\ last'.saves = <<>>
                          /\ StackUnchanged]_vars

\* asked right after a save, with nothing pushed since: no dialog, and True
C9_Witness ==
    /\ last.op = "ask_to_save_project"
    /\ last.dialogs = 0
    /\ last.ret = "True"
    /\ index > 0
    /\ clean_index = index

(***************************************************************************)
(* The worker threads and the main event loop.  The threads run and the    *)
(* event loop delivers: weak fairness of their steps.                      *)
(***************************************************************************)
InitW ==
    /\ ProjectCreated
    /\ results = NoResult
    /\ save_path = "a"
    /\ WorkersIdle
    /\ EditorClosed
    /\ SliderViewClosed
    /\ SlidersViewConstructed
    /\ WriterIdle
    /\ NoOutputs
    /\ NoDialog
    /\ RunnerIdle
    /\ OneSlider
    /\ PlotIdle

NextW == Call \/ RunEnter \/ RunBody \/ ThreadFinish \/ Stop \/ EventLoop

SpecW ==
    /\ InitW
    /\ [][NextW]_vars
    /\ WF_vars(RunEnter)
    /\ WF_vars(RunBody)
    /\ WF_vars(ThreadFinish)
    /\ WF_vars(EventLoop)

\* C2: a run() that starts with stopped False emits exactly one of
\* job_succeeded (func returned) and job_failed (func raised an Exception),
\* once; never both, and the exception does not leave run().
C2_RunEmitsExactlyOneSignal ==
    \A i \in WorkerIds :
        LET w == workers[i]
        IN /\ w.job_succeeded + w.job_failed <= 1
           /\ ~w.escaped
           /\ w.ran =>
                 /\ w.outcome = "returns" => w.job_succeeded = 1 /\ w.job_failed = 0
                 /\ w.outcome = "raises" => w.job_failed = 1 /\ w.job_succeeded = 0
           /\ ~w.ran => w.job_succeeded + w.job_failed = 0

\* func raised in a worker with no failure callback, stopped while it ran
C2_Witness ==
    \E i \in WorkerIds :
        /\ workers[i].outcome = "raises"
        /\ workers[i].job_failed = 1
        /\ workers[i].stopped
        /\ workers[i].pc = "finished"

\* the claim C3 as it is stated: when on_complete is called the worker has
\* emitted job_succeeded or job_failed.  A worker stopped between start() and
\* run() returns from run() at once and emits neither.
C3_OnCompleteAlwaysAfterJobSignal ==
    \A i \in WorkerIds :
        workers[i].on_complete = 1 =>
            workers[i].job_succeeded + workers[i].job_failed = 1

\* C3: call() connects only the callbacks that are not None and starts the
\* thread before it returns; on_complete is called once for every started
\* worker that was given one, after the worker emitted job_succeeded or
\* job_failed when run() began with stopped False, and with neither signal
\* emitted when the worker was stopped before run() began.
C3_OnCompleteOnceAfterJobSignal ==
    /\ [](\A i \in WorkerIds :
            LET w == workers[i]
            IN /\ w.pc # "unborn" => w.connected = w.given
               /\ w.on_complete <= 1
               /\ ~w.given.on_complete => w.on_complete = 0
               /\ ~w.given.on_success => w.on_success = 0
               /\ ~w.given.on_failure => w.on_failure = 0
               /\ w.on_complete = 1 =>
                     /\ w.finished = 1
                     /\ ~w.late
                     /\ w.ran => w.job_succeeded + w.job_failed = 1
                     /\ ~w.ran => w.stopped /\ w.job_succeeded + w.job_failed = 0)
    /\ [][\A i \in WorkerIds :
            workers[i].pc = "unborn" /\ workers'[i].pc # "unborn" =>
                workers'[i].pc = "started"]_vars
    /\ \A i \in WorkerIds :
          (workers[i].pc = "started" /\ workers[i].given.on_complete)
              ~> (workers[i].on_complete = 1)

\* on_complete called after func failed in a worker given no on_failure
C3_Witness ==
    \E i \in WorkerIds :
        /\ workers[i].on_complete = 1
        /\ workers[i].outcome = "raises"
        /\ ~workers[i].given.on_failure
        /\ workers[i].job_failed = 1

(***************************************************************************)
(* The custom file editor: files are opened, edited and saved.             *)
(***************************************************************************)
InitE ==
    /\ ProjectCreated
    /\ results = NoResult
    /\ save_path = "a"
    /\ WorkersIdle
    /\ EditorClosed
    /\ SliderViewClosed
    /\ SlidersViewConstructed
    /\ WriterIdle
    /\ NoOutputs
    /\ NoDialog
    /\ RunnerIdle
    /\ OneSlider
    /\ PlotIdle

NextE == OpenFile \/ TypeText \/ SaveFile

SpecE == InitE /\ [][NextE]_vars

\* C10: save_file on a modified document outside the examples writes the editor
\* text to the open file, and the document is then unmodified; when the write
\* raises OSError the error is logged and shown in a critical box, nothing is
\* raised, unchanged_text stays and the document stays modified.
C10_SaveFileWritesOrReports ==
    [][(elast'.op = "save_file" /\ is_modified(unchanged_text, text)
            /\ ~FileInExamples(file)) =>
        IF elast'.arg = "ok"
        THEN /\ elast'.writes = <<<<file, text>>>>
             /\ disk' = [disk EXCEPT ![file] = text]
             /\ ~is_modified(unchanged_text', text')
             /\ elast'.logged = 0 /\ elast'.criticals = 0
             /\ UNCHANGED <<file, text>>
        ELSE /\ elast'.logged = 1
             /\ elast'.criticals = 1
             /\ elast'.ret = "None"
             /\ elast'.writes = <<>>
             /\ unchanged_text' = unchanged_text
             /\ is_modified(unchanged_text', text')
             /\ UNCHANGED <<file, text>>]_vars

\* a save that failed after another text had been saved to the same file
C10_Witness ==
    /\ elast.op = "save_file"
    /\ elast.criticals = 1
    /\ unchanged_text = "new\n"
    /\ text = "win\r\n"
    /\ starred

\* C11: save_file writes nothing when the document is unmodified, and never
\* writes a file of the examples directory: for a modified document there it
\* shows a warning, leaves the file on disk as it was and leaves the document
\* modified.
C11_SaveFileNeverWritesUnmodifiedOrExamples ==
    [][elast'.op = "save_file" =>
        /\ ~is_modified(unchanged_text, text) =>
              /\ elast'.writes = <<>>
              /\ elast'.warnings = 0
              /\ UNCHANGED <<disk, file, text, unchanged_text>>
        /\ FileInExamples(file) =>
              /\ elast'.writes = <<>>
              /\ UNCHANGED <<disk, file, text, unchanged_text>>
        /\ (FileInExamples(file) /\ is_modified(unchanged_text, text)) =>
              /\ elast'.warnings = 1
              /\ elast'.criticals = 0
              /\ is_modified(unchanged_text', text')]_vars

\* a modified example file whose save was refused with a warning
C11_Witness ==
    /\ elast.op = "save_file"
    /\ elast.warnings = 1
    /\ FileInExamples(file)
    /\ text = "new\n"
    /\ disk[file] = "orig\n"

\* an open_file step that leaves a file with unsaved edits for another file
SwitchFromModified ==
    /\ elast'.op = "open_file"
    /\ file # NoFile
    /\ elast'.arg # file
    /\ is_modified(unchanged_text, text)

\* the dialog after an open_file step: the new file, its content, unmodified
SwitchedTo ==
    /\ file' = elast'.arg
    /\ text' = read_text(disk'[file'])
    /\ ~is_modified(unchanged_text', text')

\* the claim C12 as it is stated: on Save the edits are written to the file
\* that was open, on Discard it is untouched, and the dialog then shows the
\* new file unmodified.
C12_SaveAlwaysWritesBeforeSwitch ==
    [][SwitchFromModified =>
        /\ elast'.questions = 1
        /\ elast'.reply = SaveButton =>
              /\ elast'.writes = <<<<file, text>>>>
              /\ disk'[file] = write_text(text)
        /\ elast'.reply = DiscardButton => disk'[file] = disk[file]
        /\ SwitchedTo]_vars

\* C12: open_file(f2) while f1 is open with unsaved edits asks once whether to
\* save.  On Save it calls save_file for f1 before the switch: the edits are
\* written when f1 is outside the examples and the write succeeds, a warning is
\* shown and f1 is untouched when f1 is in the examples, and the error is logged
\* and shown when the write raises OSError.  On Discard f1 is untouched.  In
\* every case the dialog then has f2, the text read from f2, and is unmodified.
C12_OpenFileAsksOnceThenSwitches ==
    [][SwitchFromModified =>
        /\ elast'.questions = 1
        /\ elast'.reply = SaveButton =>
              IF FileInExamples(file)
              THEN /\ elast'.warnings = 1
                   /\ elast'.writes = <<>>
                   /\ disk' = disk
              ELSE \/ /\ elast'.writes = <<<<file, text>>>>
                      /\ disk' = [disk EXCEPT ![file] = write_text(text)]
                      /\ elast'.criticals = 0
                   \/ /\ elast'.writes = <<>>
                      /\ elast'.criticals = 1
                      /\ elast'.logged = 1
                      /\ \A f \in Files \ {file} : disk'[f] = disk[f]
        /\ elast'.reply = DiscardButton =>
              /\ elast'.writes = <<>>
              /\ elast'.warnings = 0
              /\ disk' = disk
        /\ SwitchedTo]_vars

\* Save was answered and the edits were written to the file left behind
C12_Witness ==
    /\ elast.op = "open_file"
    /\ elast.reply = SaveButton
    /\ elast.writes # <<>>
    /\ elast.writes[1][1] # file
    /\ disk[elast.writes[1][1]] = "new\n"

\* C13: open_file(f, language) when f is the open file returns at once: no
\* save question, nothing written, and the editor text with its unsaved edits,
\* unchanged_text and the lexer stay as they were.
C13_OpenSameFileDoesNothing ==
    [][(elast'.op = "open_file" /\ elast'.arg = file) =>
        /\ elast'.questions = 0
        /\ elast'.writes = <<>>
        /\ elast'.warnings = 0
        /\ elast'.criticals = 0
        /\ UNCHANGED <<file, text, unchanged_text, lexer, starred, disk>>]_vars

\* the open file was opened again while it had unsaved edits
C13_Witness ==
    /\ elast.op = "open_file"
    /\ elast.arg = file
    /\ is_modified(unchanged_text, text)
    /\ text = "new\n"

(***************************************************************************)
(* The slider view of the project widget.                                  *)
(***************************************************************************)
InitV ==
    /\ ProjectCreated
    /\ results = NoResult
    /\ save_path = "a"
    /\ WorkersIdle
    /\ EditorClosed
    /\ SliderViewClosed
    /\ SlidersViewConstructed
    /\ WriterIdle
    /\ NoOutputs
    /\ NoDialog
    /\ RunnerIdle
    /\ OneSlider
    /\ PlotIdle

NextV == CreateSliderView \/ MoveSlider \/ AcceptSliders \/ CancelSliders

SpecV == InitV /\ [][NextV]_vars

\* the parameters with fit True in the Parameter class lists of a draft
FittedRefs(draft) ==
    {ref \in UNION {{<<ci, row>> : row \in 1..Len(draft[ci].items)} : ci \in 1..Len(draft)} :
        draft[ref[1]].handle = "Parameter" /\ ParamAt(draft, ref).fit}

\* C14: after initialize(), parameters holds exactly the parameters with fit
\* True of the Parameter class lists of the draft project, _sliders has one
\* slider per fitted parameter under the same names in the same order, and
\* with no fitted parameter there are no sliders, the label is shown and the
\* Accept button is disabled.
C14_OneSliderPerFittedParameter ==
    vlast.op # "init" =>
        /\ {parameters[i][2] : i \in 1..Len(parameters)} = FittedRefs(draft_project)
        /\ Len(parameters) = Cardinality(FittedRefs(draft_project))
        /\ Len(sliders) = Cardinality(FittedRefs(draft_project))
        /\ \A i \in 1..Len(parameters) :
              /\ parameters[i][1] = ParamAt(draft_project, parameters[i][2]).name
              /\ i <= Len(sliders) =>
                    /\ sliders[i][1] = parameters[i][1]
                    /\ sliders[i][2].param = parameters[i][2]
        /\ FittedRefs(draft_project) = {} =>
              /\ sliders = <<>>
              /\ no_label
              /\ accept_disabled

\* the parameter a slider of the view controls
ParamOf(draft, slider) == ParamAt(draft, slider.param)

\* C15: the range of the QSlider of a LabeledSlider is always 0..100; its
\* first position is round(100*(value-min)/(max-min)), or 100 when max-min is
\* below 1e-6; a change of the slider to position p sets param.value to
\* min + p*(max-min)/100, at most max, and calls update_result_and_plots once.
C15_SliderScalesParameterRange ==
    /\ [](\A i \in 1..Len(sliders) :
            /\ sliders[i][2].minimum = 0
            /\ sliders[i][2].maximum = 100)
    /\ [](vlast.op = "initialize" =>
            \A i \in 1..Len(sliders) :
                LET param == ParamOf(draft_project, sliders[i][2])
                    pos == sliders[i][2].value
                IN IF (param.max - param.min) * 100 < 1
                   THEN pos = 100
                   ELSE 2 * Abs(100 * (param.value - param.min) - pos * (param.max - param.min))
                            <= param.max - param.min)
    /\ [][vlast'.op = "move" =>
            LET i == vlast'.order[1]
                pos == vlast'.order[2]
                old == ParamOf(draft_project, sliders[i][2])
                new == ParamOf(draft_project', sliders'[i][2])
                scaled == 100 * old.min + pos * (old.max - old.min)
            IN /\ sliders'[i][2].value = pos
               /\ 100 * new.value = (IF scaled > 100 * old.max THEN 100 * old.max ELSE scaled)
               /\ new.min = old.min /\ new.max = old.max
               /\ vlast'.updates = 1]_vars

\* a slider of a parameter with a negative minimum was moved to position 79
C15_Witness ==
    /\ vlast.op = "move"
    /\ \E i \in 1..Len(sliders) :
          /\ sliders[i][2].value = 79
          /\ ParamOf(draft_project, sliders[i][2]).min < 0
          /\ ParamOf(draft_project, sliders[i][2]).value = 3740

\* C16: Accept calls presenter.edit_project(draft_project) once and then
\* toggles the slider view closed; Cancel never calls edit_project, so the
\* project of the model stays as it was while the sliders moved and after
\* Cancel, refreshes the plots and then toggles the slider view closed.
C16_AcceptAppliesCancelDoesNot ==
    [][/\ vlast'.op = "accept" =>
            /\ vlast'.edit_project = <<draft_project>>
            /\ vlast'.order = <<"edit_project", "toggle_sliders">>
            /\ vlast'.toggles = 1
            /\ vlast'.plots = 0
            /\ model_project' = draft_project
            /\ slider_view' = "closed"
       /\ vlast'.op = "cancel" =>
            /\ vlast'.edit_project = <<>>
            /\ model_project' = model_project
            /\ vlast'.plots = 1
            /\ vlast'.order = <<"update_plots", "toggle_sliders">>
            /\ vlast'.toggles = 1
            /\ slider_view' = "closed"
       /\ vlast'.op = "move" =>
            /\ vlast'.edit_project = <<>>
            /\ model_project' = model_project]_vars

\* Cancel after the sliders changed the draft: the model keeps its values
C16_Witness ==
    /\ vlast.op = "cancel"
    /\ slider_view = "closed"
    /\ draft_project # model_project

(***************************************************************************)
(* The sliders view of the main window.                                    *)
(***************************************************************************)
InitT ==
    /\ ProjectCreated
    /\ results = NoResult
    /\ save_path = "a"
    /\ WorkersIdle
    /\ EditorClosed
    /\ SliderViewClosed
    /\ SlidersViewConstructed
    /\ WriterIdle
    /\ NoOutputs
    /\ NoDialog
    /\ RunnerIdle
    /\ OneSlider
    /\ PlotIdle

NextT ==
    \/ LoadProject
    \/ SetFit
    \/ InitSlidersView
    \/ ShowSlidersView
    \/ MoveLabeledSlider
    \/ CancelSlidersView
    \/ AcceptSlidersView

SpecT == InitT /\ [][NextT]_vars

\* the positions in _values_to_revert of the properties whose value differs
\* from the recorded one
ChangedPositions ==
    {i \in 1..Len(values_to_revert) :
        values_to_revert[i][2]
            # PropParam(tables, Get(prop_to_change, values_to_revert[i][1])).value}

LastChanged == CHOOSE i \in ChangedPositions : \A j \in ChangedPositions : j <= i

\* C17: Cancel with at least one property differing from its recorded value sets
\* every slider-controlled property back to the recorded value, makes exactly one
\* update with recalculate_project True, the one of the last changed property, and
\* hides the sliders; with no property differing it makes no update and hides
\* the sliders.
C17_CancelRecalculatesForLastChanged ==
    [][tlast'.op = "cancel" =>
        /\ ~sliders_visible'
        /\ IF ChangedPositions # {}
           THEN /\ \A i \in 1..Len(values_to_revert) :
                     PropParam(tables', Get(prop_to_change, values_to_revert[i][1])).value
                         = values_to_revert[i][2]
                /\ Cardinality({k \in 1..Len(tlast'.calls) :
                                   tlast'.calls[k].recalculate_project}) = 1
                /\ \A k \in 1..Len(tlast'.calls) :
                     tlast'.calls[k].recalculate_project
                         <=> tlast'.calls[k].name = values_to_revert[LastChanged][1]
           ELSE tlast'.calls = <<>> /\ tables' = tables]_vars

\* Cancel does recalculate exactly once, reverts every property and hides
C17_CancelRevertsRecalculatingOnce ==
    [][tlast'.op = "cancel" =>
        /\ ~sliders_visible'
        /\ IF ChangedPositions # {}
           THEN /\ \A i \in 1..Len(values_to_revert) :
                     PropParam(tables', Get(prop_to_change, values_to_revert[i][1])).value
                         = values_to_revert[i][2]
                /\ Cardinality({k \in 1..Len(tlast'.calls) :
                                   tlast'.calls[k].recalculate_project}) = 1
           ELSE tlast'.calls = <<>> /\ tables' = tables]_vars

\* the fitted parameters of the ParametersModel tables, as <<table, row>>
FittedRows(tabs) ==
    {tr \in (1..Len(tabs)) \X (1..2) :
        /\ tabs[tr[1]].model = "ParametersModel"
        /\ tr[2] <= Len(tabs[tr[1]].classlist)
        /\ tabs[tr[1]].classlist[tr[2]].fit}

FittedNames(tabs) == {tabs[tr[1]].classlist[tr[2]].name : tr \in FittedRows(tabs)}

InitCalled(d) == d.op \in {"init", "show"} /\ d.path # "none"

\* C18: init() with a project rebuilds the sliders when the set of fitted
\* parameter names is empty or differs from the set of the previous init (the
\* empty set before the first), updates the existing sliders and creates none
\* when the set is non-empty and the same, and always records the current
\* values as the values Cancel reverts to.
C18_InitRebuildsOnlyWhenNamesDiffer ==
    [][InitCalled(tlast') =>
        /\ IF FittedNames(tables) = {} \/ FittedNames(tables) # KeySet(prop_to_change)
           THEN tlast'.path = "add"
           ELSE tlast'.path = "update" /\ tlast'.created = 0
        /\ KeySet(values_to_revert') = FittedNames(tables)
        /\ \A i \in 1..Len(values_to_revert') :
             values_to_revert'[i][2]
                 = PropParam(tables, Get(prop_to_change', values_to_revert'[i][1])).value]_vars

\* no two fitted parameters have the same name
FittedNamesDistinct(tabs) ==
    \A a, b \in FittedRows(tabs) :
        tabs[a[1]].classlist[a[2]].name = tabs[b[1]].classlist[b[2]].name => a = b

\* the same with no name shared by two fitted parameters
C18_InitRebuildsOnlyWhenDistinctNamesDiffer ==
    [][InitCalled(tlast') /\ FittedNamesDistinct(tables) =>
        /\ IF FittedNames(tables) = {} \/ FittedNames(tables) # KeySet(prop_to_change)
           THEN tlast'.path = "add"
           ELSE tlast'.path = "update" /\ tlast'.created = 0
        /\ KeySet(values_to_revert') = FittedNames(tables)
        /\ \A i \in 1..Len(values_to_revert') :
             values_to_revert'[i][2]
                 = PropParam(tables, Get(prop_to_change', values_to_revert'[i][1])).value]_vars

\* the keys of _sliders are the fitted names, each slider bound to a table
\* model holding a fitted parameter of its name, or the one EmptySlider
SlidersMatchFitted ==
    IF FittedNames(tables) # {}
    THEN /\ KeySet(view_sliders) = FittedNames(tables)
         /\ \A i \in 1..Len(view_sliders) :
              /\ view_sliders[i][2].kind = "LabeledSlider"
              /\ <<view_sliders[i][2].prop.model, view_sliders[i][2].prop.row_number>>
                     \in FittedRows(tables)
              /\ PropParam(tables, view_sliders[i][2].prop).name = view_sliders[i][1]
    ELSE view_sliders = <<<<EmptySliderName, EmptySlider>>>>

\* C19: after init() with a project the keys of _sliders are exactly the names
\* of the parameters with fit True in the ParametersModel tables, each slider
\* bound to the table model holding its parameter, or exactly 'Empty Slider'
\* holding an EmptySlider when no parameter is fitted; no EmptySlider is left
\* once an init() finds a fitted parameter.
C19_SlidersKeysAreFittedNames == InitCalled(tlast) => SlidersMatchFitted

\* the same for the init() calls that no exception ended
C19_SlidersKeysAreFittedNamesUnlessRaised ==
    InitCalled(tlast) /\ ~tlast.raised => SlidersMatchFitted

(***************************************************************************)
(* The export of the results to zipped CSV files.                          *)
(***************************************************************************)
InitZ ==
    /\ ProjectCreated
    /\ results = NoResult
    /\ save_path = "a"
    /\ WorkersIdle
    /\ EditorClosed
    /\ SliderViewClosed
    /\ SlidersViewConstructed
    /\ WriterIdle
    /\ NoOutputs
    /\ NoDialog
    /\ RunnerIdle
    /\ OneSlider
    /\ PlotIdle

NextZ == WriteResult

SpecZ == InitZ /\ [][NextZ]_vars

\* the names of the entries of the list and double-list fields and of the
\* contrast parameters
ResultNames(r) ==
    {f \o "_contrast" \o ToString(i) \o ".csv" :
        f \in Range(results_fields.list_fields), i \in 0..(r.contrasts - 1)}
    \cup {f \o "_contrast" \o ToString(ij[1]) \o ".csv" :
            f \in Range(results_fields.double_list_fields),
            ij \in {x \in (0..(r.contrasts - 1)) \X {0} : r.domains[x[1] + 1] = 1}}
    \cup {f \o "_contrast" \o ToString(ij[1]) \o "_domain" \o ToString(ij[2]) \o ".csv" :
            f \in Range(results_fields.double_list_fields),
            ij \in {x \in (0..(r.contrasts - 1)) \X (0..(MaxDomains - 1)) :
                      r.domains[x[1] + 1] > 1 /\ x[2] < r.domains[x[1] + 1]}}
    \cup {"contrastParams/" \o f \o ".csv" : f \in Range(contrast_param_fields)}

\* the names of the entries under Bayes/ when the third inner class is output
BayesNames(r, output) ==
    {"Bayes/predictionIntervals_reflectivity_contrast" \o ToString(i) \o ".csv" :
        i \in 0..(r.contrasts - 1)}
    \cup {"Bayes/predictionIntervals_sld_contrast" \o ToString(i) \o ".csv" :
            i \in {x \in 0..(r.contrasts - 1) : r.sld[x + 1] = 1}}
    \cup {"Bayes/predictionIntervals_sld_contrast" \o ToString(ij[1]) \o "_domain"
              \o ToString(ij[2]) \o ".csv" :
            ij \in {x \in (0..(r.contrasts - 1)) \X (0..(MaxDomains - 1)) :
                      r.sld[x[1] + 1] > 1 /\ x[2] < r.sld[x[1] + 1]}}
    \cup {"Bayes/predictionIntervals_sampleChi.csv"}
    \cup {"Bayes/confidenceIntervals_" \o f \o ".csv" :
            f \in Range(bayes_results_fields.array_fields.confidenceIntervals)}
    \cup {"Bayes/" \o output \o "_" \o f \o ".csv" :
            f \in Range(bayes_results_fields.array_fields[output])}

RECURSIVE SumOf(_)
SumOf(ns) == IF ns = <<>> THEN 0 ELSE Head(ns) + SumOf(Tail(ns))

\* the number of arrays the results hold in the fields the writer exports
ArraysOf(r) ==
    Len(results_fields.list_fields) * r.contrasts
    + Len(results_fields.double_list_fields) * SumOf(r.domains)
    + Len(contrast_param_fields)
    + IF ~r.bayes THEN 0
      ELSE r.contrasts + SumOf(r.sld) + 1
           + Len(bayes_results_fields.array_fields.confidenceIntervals)
           + Len(bayes_results_fields.array_fields[
                     IF r.procedure = "ns" THEN "nestedSamplerOutput" ELSE "dreamOutput"])

\* C20: write_result_to_zipped_csvs writes one entry per array: the list fields
\* as <field>_contrast<i>.csv, the double-list fields with _domain<j> only when
\* contrast i has more than one domain, the five contrast parameter fields under
\* contrastParams/; entries under Bayes/ if and only if the results are
\* BayesResults, of nestedSamplerOutput for procedure ns and of dreamOutput
\* otherwise; and no name twice.
C20_OneCsvEntryPerArray ==
    zip_results # NoResults =>
        /\ Range(namelist)
             = ResultNames(zip_results)
               \cup IF zip_results.bayes
                    THEN BayesNames(zip_results,
                                    IF zip_results.procedure = "ns"
                                    THEN "nestedSamplerOutput" ELSE "dreamOutput")
                    ELSE {}
        /\ Len(namelist) = ArraysOf(zip_results)
        /\ \A i, j \in 1..Len(namelist) : namelist[i] = namelist[j] => i = j

\* a BayesResults of the nested sampler with a one-domain and a two-domain
\* contrast has been written
C20_Witness ==
    /\ zip_results.bayes
    /\ zip_results.procedure = "ns"
    /\ \E i, j \in 1..Len(zip_results.domains) :
         zip_results.domains[i] = 1 /\ zip_results.domains[j] = 2
    /\ \E k \in 1..Len(namelist) : namelist[k] = "Bayes/nestedSamplerOutput_nestSamples.csv"
    /\ \E k \in 1..Len(namelist) : namelist[k] = "sldProfiles_contrast1_domain1.csv"
    /\ \E k \in 1..Len(namelist) : namelist[k] = "layers_contrast0.csv"

(***************************************************************************)
(* Merged edit commands and the results of a preview.                      *)
(***************************************************************************)
\* the attributes a command edits have the values they had when it was constructed
AttributesRestored(c) ==
    \A k \in KeySet(c.old_values) :
        model_class([controls |-> controls', project |-> project'], c.attribute)[k]
            = c.snapshot.obj[k]

\* C22: when a redo() of an edit command has changed the model results, undo()
\* of the command, after any merges that absorbed later commands into it,
\* restores the model results to the copy taken when the command was
\* constructed, and the edited attributes to their old values.
C22_UndoOfMergedRestoresResults ==
    [][(last'.op = "undo" /\ command_list[index].changed) =>
          /\ results' = command_list[index].snapshot.results
          /\ AttributesRestored(command_list[index])]_vars

\* undo() of a command whose preview flag is still set restores the results,
\* and undo() always restores the attributes
C22_UndoRestoresResultsWhilePreview ==
    [][last'.op = "undo" =>
          /\ command_list[index].preview
                => results' = command_list[index].snapshot.results
          /\ AttributesRestored(command_list[index])]_vars

\* C23: a merge marks the merged command obsolete exactly when the new values
\* of the absorbed command equal the old_values the first command recorded;
\* then the edit is a net no-op and no undo entry remains for it, and a merge
\* whose net effect changes a value is not marked obsolete and stays on the
\* stack.
C23_ObsoleteIffNetNoOp ==
    [][last'.merged =>
        LET cur == command_list[index]
            command == last'.pushed[1]
            now == model_class([controls |-> controls', project |-> project'],
                               cur.attribute)
            noop == \A k \in KeySet(cur.old_values) : now[k] = cur.snapshot.obj[k]
        IN /\ MergedCmd'.obsolete
                <=> Values(command.new_values) = Values(cur.old_values)
           /\ MergedCmd'.obsolete <=> noop
           /\ IF MergedCmd'.obsolete
              THEN /\ index' = index - 1
                   /\ Len(command_list') = index - 1
                   /\ last'.deleted = <<MergedCmd'>>
              ELSE /\ index' = index
                   /\ command_list'[index] = MergedCmd'
                   /\ last'.deleted = <<>>]_vars

\* a setting changed and changed back: the merged command was obsolete and
\* the stack is empty again
C23_Witness ==
    /\ last.merged
    /\ last.deleted # <<>>
    /\ last.deleted[1].obsolete
    /\ Values(last.deleted[1].new_values) = Values(last.deleted[1].old_values)
    /\ command_list = <<>>

\* C25: quick_run is called at most once over the lifetime of a preview
\* command: a redo() of a command whose redo() has called quick_run before does
\* not call it again; and a redo() of a command without preview does not call
\* quick_run and leaves the model results as they are.
C25_QuickRunAtMostOncePerCommand ==
    [][/\ last'.op \in {"redo", "edit_project"} => ~last'.rerun
       /\ (last'.op = "redo" /\ ~command_list[index + 1].preview)
             => ~last'.ran /\ results' = results
       /\ (last'.op = "edit_project" /\ last'.pushes = 1 /\ ~last'.pushed[1].preview)
             => ~last'.ran /\ results' = results]_vars

\* quick_run is not called again once a redo() has stored a result that is not
\* None, and never without preview
C25_QuickRunNotRepeatedOnceResultStored ==
    [][/\ (last'.op = "redo" /\ command_list[index + 1].new_result # NoResult)
             => ~last'.ran
       /\ (last'.op = "redo" /\ ~command_list[index + 1].preview)
             => ~last'.ran /\ results' = results
       /\ (last'.op = "edit_project" /\ last'.pushes = 1 /\ ~last'.pushed[1].preview)
             => ~last'.ran /\ results' = results]_vars

(***************************************************************************)
(* The outputs of the calculations on the undo stack.                      *)
(***************************************************************************)
InitC ==
    /\ ProjectCreated
    /\ results = NoResult
    /\ save_path = "a"
    /\ WorkersIdle
    /\ EditorClosed
    /\ SliderViewClosed
    /\ SlidersViewConstructed
    /\ WriterIdle
    /\ NoOutputs
    /\ NoDialog
    /\ RunnerIdle
    /\ OneSlider
    /\ PlotIdle

NextC == HandleResults \/ UndoOutputs \/ RedoOutputs

SpecC == InitC /\ [][NextC]_vars

\* the places the commands on the stack keep results at
StoredRefs(commands) ==
    UNION {{commands[i].results.ref, commands[i].old_results.ref} : i \in DOMAIN commands}

\* the model holds the outputs a command was given: values by index, results, log
ModelHolds(pv, mres, mlog, values, res, log) ==
    /\ \A i \in DOMAIN values : \A j \in DOMAIN values[i][2] :
           pv[values[i][1]][j] = values[i][2][j]
    /\ mres.value = res.value
    /\ mlog = log

\* C24: redo() of a SaveCalculationOutputs sets the parameter values (per class
\* list, by index), the results and the log of the model to the outputs of the
\* run, undo() sets them to the ones captured at construction, which are the ones
\* the model held before the redo(), and the results handed to the model are a
\* copy, never an object a command keeps
C24_RestorePair ==
    [][/\ outputs_index' = outputs_index + 1 =>
           LET c == outputs_commands'[outputs_index']
           IN ModelHolds(parameter_values', model_results', result_log',
                         c.problem, c.results, c.log)
       /\ outputs_index' = outputs_index - 1 =>
           LET c == outputs_commands[outputs_index]
           IN /\ ModelHolds(parameter_values', model_results', result_log',
                            c.old_problem, c.old_results, c.old_log)
              /\ Outputs(parameter_values', model_results', result_log') = c.before
       /\ clast'.handed # None =>
           /\ clast'.handed.ref \notin StoredRefs(outputs_commands')
           /\ model_results' = clast'.handed]_vars

\* a second run has been undone: the outputs of the first run are back, through
\* a copy of the results captured
C24_Witness ==
    /\ clast.op = "undo"
    /\ outputs_index = 1
    /\ Len(outputs_commands) = MaxRuns
    /\ model_results # None
    /\ outputs_commands[2].results.value # model_results.value
    /\ outputs_commands[2].log # result_log
    /\ outputs_commands[2].problem # get_parameter_values(make_problem(parameter_values))

(***************************************************************************)
(* The instances of the file editor.                                       *)
(***************************************************************************)
InitD ==
    /\ ProjectCreated
    /\ results = NoResult
    /\ save_path = "a"
    /\ WorkersIdle
    /\ EditorClosed
    /\ SliderViewClosed
    /\ SlidersViewConstructed
    /\ WriterIdle
    /\ NoOutputs
    /\ NoDialog
    /\ RunnerIdle
    /\ OneSlider
    /\ PlotIdle

NextD == ConstructDialog \/ EditFile \/ RejectDialog

SpecD == InitD /\ [][NextD]_vars

\* the dialogs constructed and not rejected
LiveDialogs == {d \in DOMAIN dialogs : ~dialogs[d].rejected}

\* at most one CustomFileEditorDialog is live, the one the class holds, and no
\* dialog has been initialised twice
AtMostOneLive ==
    /\ Cardinality(LiveDialogs) <= 1
    /\ LiveDialogs = {cls_instance} \ {0}
    /\ \A d \in DOMAIN dialogs : dialogs[d].inits = 1 /\ (dialogs[d].visible => d = cls_instance)

\* a construction while an instance exists returns that instance and neither
\* makes nor initialises a dialog, and a construction makes a dialog only when
\* there is no dialog yet or reject() has been called on the one made before
SingletonConstruction ==
    dlast'.op \in {"construct", "edit_file"} /\ dlast'.ret # 0 =>
        /\ cls_instance # 0 =>
              /\ dlast'.ret = cls_instance
              /\ ~dlast'.created
              /\ Len(dialogs') = Len(dialogs)
              /\ dialogs'[cls_instance].inits = dialogs[cls_instance].inits
        /\ dlast'.created =>
              /\ cls_instance = 0
              /\ Len(dialogs') = Len(dialogs) + 1
              /\ dialogs # <<>> => dialogs[Len(dialogs)].rejected

\* C27: at any time at most one CustomFileEditorDialog is live; a construction
\* while an instance exists returns that instance without initialising it again,
\* and only after reject() does the next construction make a new dialog
C27_Singleton == []AtMostOneLive /\ [][SingletonConstruction]_vars

\* a second dialog has been made after the first was rejected, and a further
\* construction has returned the second
C27_Witness ==
    /\ Len(dialogs) = 2
    /\ dialogs[1].rejected
    /\ cls_instance = 2
    /\ dlast.op = "edit_file" /\ dlast.ret = 2 /\ ~dlast.created

(***************************************************************************)
(* The events of a run.  Qt delivers every signal emitted.                 *)
(***************************************************************************)
InitH ==
    /\ ProjectCreated
    /\ results = NoResult
    /\ save_path = "a"
    /\ WorkersIdle
    /\ EditorClosed
    /\ SliderViewClosed
    /\ SlidersViewConstructed
    /\ WriterIdle
    /\ NoOutputs
    /\ NoDialog
    /\ RunnerIdle
    /\ OneSlider
    /\ PlotIdle

NextH == Run \/ ReceiveEvent \/ HandleEvent \/ FinishRun

SpecH == InitH /\ [][NextH]_vars /\ WF_vars(HandleEvent)

\* the sinks of an event of a type, given the value parsed from a message
SinksOf(event, chi_squared) ==
    IF event.type = "str"
    THEN IF chi_squared = "None" THEN <<"terminal_widget.write">>
         ELSE <<"terminal_widget.write", "chi_squared.setText">>
    ELSE IF event.type = "ProgressEventData" THEN <<"terminal_widget.update_progress">>
    ELSE IF event.type = "PlotEventData" THEN <<"plot_widget.plot_with_blit">>
    ELSE <<"logging.log">>

\* the value a message of a procedure shows: the first decimal number for
\* simplex, the one after "Best: " for de
ParsedValue(event, proc) ==
    IF event.type # "str" THEN "None"
    ELSE IF proc = "simplex" /\ event.data = " 10   2.5   1.25" THEN "2.5"
    ELSE IF proc \in {"simplex", "de"} /\ event.data = "Iter 3 Best: 0.75" THEN "0.75"
    ELSE "None"

\* a handle_event call removes the oldest event and dispatches it by its type
OneEventHandled ==
    hlast'.op = "handle_event" =>
        /\ hlast'.raised = "None"
        /\ events # <<>>
        /\ hlast'.event = Head(events)
        /\ events' = Tail(events)
        /\ hlast'.sinks = SinksOf(Head(events), ParsedValue(Head(events), run_procedure))
        /\ chi_squared_label' =
              IF ParsedValue(Head(events), run_procedure) # "None"
              THEN ParsedValue(Head(events), run_procedure) ELSE chi_squared_label

\* the events handled and the events pending are the events queued, in order
HandledInOrder ==
    /\ handled \o events = queued
    /\ Len(events) = signals
    /\ \A i \in DOMAIN queued : queued[i].n = i

\* C26: each handle_event call removes the oldest pending event from
\* runner.events and dispatches it to the one sink of its type; with one
\* event_received signal per queued event, the events are handled in the order
\* they were queued, none twice, and every one of them is handled
C26_EventsHandledInOrder ==
    /\ []HandledInOrder
    /\ [][OneEventHandled]_vars
    /\ \A i \in 1..MaxEvents : (Len(queued) >= i) ~> (Len(handled) >= i)

\* three events were pending at once and all have been handled, the last one a
\* message of de whose value is on the label
C26_Witness ==
    /\ hlast.op = "handle_event"
    /\ Len(handled) = MaxEvents
    /\ handled = queued
    /\ run_procedure = "de"
    /\ hlast.event.type = "str"
    /\ chi_squared_label = "0.75"
    /\ handled[1].type = "PlotEventData"
    /\ handled[2].type = "LogData"

(***************************************************************************)
(* One LabeledSlider of the sliders view.                                  *)
(***************************************************************************)
InitL ==
    /\ ProjectCreated
    /\ results = NoResult
    /\ save_path = "a"
    /\ WorkersIdle
    /\ EditorClosed
    /\ SliderViewClosed
    /\ SlidersViewConstructed
    /\ WriterIdle
    /\ NoOutputs
    /\ NoDialog
    /\ RunnerIdle
    /\ \E q \in ProperParams, row \in SliderRows : labeled_slider = BuiltSlider(q, row)
    /\ llast = LDid("init")
    /\ PlotIdle

NextL == SetSliderGuiPosition \/ UpdateSliderParameters \/ UserMovesSlider

SpecL == InitL /\ [][NextL]_vars

\* round(100 * (value - min) / (max - min)) for min < max, a tie to the even
\* number: twice the distance from the position is at most the range
IsRounded(p, value, lo, hi) ==
    LET n == slider_max_idx * (value - lo)
        d == hi - lo
    IN /\ 2 * Abs(n - p * d) <= d
       /\ 2 * Abs(n - p * d) = d => p % 2 = 0

InitG ==
    /\ ProjectCreated
    /\ results = NoResult
    /\ save_path = "a"
    /\ WorkersIdle
    /\ EditorClosed
    /\ SliderViewClosed
    /\ SlidersViewConstructed
    /\ WriterIdle
    /\ NoOutputs
    /\ NoDialog
    /\ RunnerIdle
    /\ OneSlider
    /\ PlotIdle

NextG == ChangeControl \/ Plot \/ PlotNone \/ PlotWithBlit

SpecG == InitG /\ [][NextG]_vars

\* the rendering is of the data and the controls of the widget w
RendersCurrent(r, w) ==
    /\ r.data = w.current_plot_data
    /\ r.linear_x = (w.x_axis = "Linear")
    /\ r.q4 = (w.y_axis = "Q^4")
    /\ r.show_error_bar = w.show_error_bar
    /\ r.show_grid = w.show_grid
    /\ r.shift_value = w.slider
    /\ r.show_legend = (w.show_legend /\ w.current_plot_data.contrastNames # <<>>)

\* C21: a change of a plot control renders the plot data supplied last once, with
\* the values the controls have after the change: by the update of the blit plot
\* when one is active, by a full redraw otherwise; plot_event leaves no blit
\* plot; the legend is asked for only when the box is checked and the data has
\* contrast names; nothing is rendered while no plot data has been supplied
C21_ControlChangeRerenders ==
    [][/\ glast'.op = "control" =>
           /\ ref_sld'.current_plot_data = ref_sld.current_plot_data
           /\ \E c \in DOMAIN ControlValues : ref_sld'[c] # ref_sld[c]
           /\ IF ref_sld.current_plot_data = NoPlotData
              THEN glast'.rendered = <<>>
              ELSE /\ Len(glast'.rendered) = 1
                   /\ RendersCurrent(glast'.rendered[1], ref_sld')
                   /\ glast'.rendered[1].via =
                         IF ref_sld.blit_plot # "None" THEN "blit_plot.update"
                         ELSE "plot_ref_sld_helper"
                   /\ ref_sld'.blit_plot = ref_sld.blit_plot
       /\ glast'.op = "plot_event" => ref_sld'.blit_plot = "None"
       /\ \A i \in DOMAIN glast'.rendered :
           /\ ref_sld'.current_plot_data # NoPlotData
           /\ RendersCurrent(glast'.rendered[i], ref_sld')]_vars

\* with a blit plot active and data with contrast names, the legend box was
\* unchecked: the blit plot was updated without a legend
C21_Witness ==
    /\ glast.op = "control"
    /\ ref_sld.blit_plot = "BlittingSupport"
    /\ ref_sld.current_plot_data.contrastNames # <<>>
    /\ ~ref_sld.show_legend
    /\ Len(glast.rendered) = 1
    /\ glast.rendered[1].via = "blit_plot.update"
    /\ ~glast.rendered[1].show_legend

====
